---- MODULE Spec2Model ----
(***************************************************************************)
(* Model of the dynamics-fitting engine of dart/biomechanics/               *)
(* DynamicsFitter.cpp: ResidualForceHelper, DynamicsFitProblem and the      *)
(* solver-facing part of DynamicsFitter.                                    *)
(*                                                                         *)
(* Real numbers are modelled by integers.  Inputs are drawn so that the     *)
(* divisions of the constructor are exact.  The skeleton (an external       *)
(* collaborator) is a store of its group parameters and of its positions,   *)
(* velocities and accelerations; every scale group holds one body.          *)
(***************************************************************************)
EXTENDS Integers, Sequences, FiniteSets, TLC

\* ---------------------------------------------------------------- bounds
NumDofs == 1
NumScaleGroups == 1
NumMarkers == 1
MaxTrials == 2
MaxFrames == 4
XMod == 3
ScaleDim == 3
MaxIters == 3
NumBodyNodes == 4
MaxPlates == 2
GridSize == 4
MaxStageCalls == 2
MaxObj == 2

\* ------------------------------------------------------- program constants
MinFrames == 2
ComDim == 3
InertiaDim == 6
MarkerDim == 3
PoseBlocks == 3
Padding == 1
\* the floor of 0.01 on estimated masses, in units of 0.005
MassFloor == 2
\* the weights of the loss, in units of 0.05
mMarkerWeight == 20
mRegularizeMasses == 20
mRegularizeCOMs == 20
mRegularizeInertias == 20
mRegularizeTrackingMarkerOffsets == 1
mRegularizeAnatomicalMarkerOffsets == 200
mRegularizeBodyScales == 4
mRegularizePoses == 0
FeasibilityTenths == 10
MarkerOffsetBound == 5

VARIABLES
  trialTimesteps,       \* init->trialTimesteps, one dt per trial
  poseTrials,           \* init->poseTrials[trial][t] : column of NumDofs
  probablyMissingGRF,   \* init->probablyMissingGRF[trial][t]
  initParams,           \* init->groupScales, bodyCom, bodyInertia, bodyMasses, markerOffsets
  flags,                \* mIncludeMasses .. mIncludeMarkerOffsets
  mSkeleton,            \* group parameters and positions / velocities / accelerations
  mMarkers,             \* mMarkers[i].second
  mPoses, mVels, mAccs, \* per trial, per column
  mLastX,               \* last vector unflatten() accepted
  mBest,                \* mBestObjectiveValue, ...Iteration, ...State
  phase,                \* "config", "solve", "done", "exited", "aborted"
  last,                 \* the last completed call and what it returned
  hist,                 \* history of the solve, for the tracker claims
  originals,            \* init->originalPoses, originalGroupMasses, ..., originalMarkerOffsets
  given,                \* what the caller hands to createInitialization
  world,                \* the skeleton's body positions at each frame's pose
  forcePlateTrials,     \* init->forcePlateTrials[trial][plate]
  grfTrials,            \* init->grfTrials[trial][t][body] : one wrench per GRF body
  initJoints,           \* init->jointCenters, init->jointAxis, per trial
  contacts              \* what estimateFootGroundContacts appends to init

\* the state DynamicsFitter's stages work on, apart from the masses and poses
fitterVars == << given, world, forcePlateTrials, grfTrials, initJoints, contacts >>

vars == << trialTimesteps, poseTrials, probablyMissingGRF, initParams, flags,
           mSkeleton, mMarkers, mPoses, mVels, mAccs, mLastX, mBest, phase,
           last, hist, originals, fitterVars >>

\* ---------------------------------------------------------------- helpers
Zero(n) == [i \in 1..n |-> 0]

RECURSIVE Concat(_)
Concat(ss) == IF ss = << >> THEN << >> ELSE Head(ss) \o Concat(Tail(ss))

RECURSIVE SumSeq(_)
SumSeq(s) == IF s = << >> THEN 0 ELSE Head(s) + SumSeq(Tail(s))

\* x.segment(cursor, dim) with a 0-based cursor; a read past the end of x is
\* undefined and yields the value oob
segment(x, cursor, dim, oob) ==
  [i \in 1..dim |-> IF cursor + i <= Len(x) THEN x[cursor + i] ELSE oob]

cols(M) == Len(M)

squaredNorm(v) == SumSeq([i \in 1..Len(v) |-> v[i] * v[i]])
addVec(a, b) == [i \in 1..Len(a) |-> a[i] + b[i]]
subVec(a, b) == [i \in 1..Len(a) |-> a[i] - b[i]]

\* ------------------------------------------------- DynamicsFitProblem ctor
\* vels.col(j) = (q[j+1] - q[j]) / dt
ctorVels(inputPoses, dt) ==
  [j \in 1..(cols(inputPoses) - 1) |->
     [i \in 1..NumDofs |-> (inputPoses[j + 1][i] - inputPoses[j][i]) \div dt]]

\* accs.col(j) = (q[j+2] - 2 q[j+1] + q[j]) / dt^2
ctorAccs(inputPoses, dt) ==
  [j \in 1..(cols(inputPoses) - 2) |->
     [i \in 1..NumDofs |->
        (inputPoses[j + 2][i] - 2 * inputPoses[j + 1][i] + inputPoses[j][i])
          \div (dt * dt)]]

\* ------------------------------------------------------------ the layout
massDim == NumScaleGroups
comDim == NumScaleGroups * ComDim
inertiaDim == NumScaleGroups * InertiaDim
getGroupScaleDim == NumScaleGroups * ScaleDim
markerDim == NumMarkers * MarkerDim

\* the cursor of unflatten()/flatten() when it reaches each block
cursorCOMs(f) == IF f.mIncludeMasses THEN massDim ELSE 0
cursorInertias(f) == cursorCOMs(f) + (IF f.mIncludeCOMs THEN comDim ELSE 0)
cursorScales(f) == cursorInertias(f) + (IF f.mIncludeInertias THEN inertiaDim ELSE 0)
cursorMarkers(f) == cursorScales(f) + (IF f.mIncludeBodyScales THEN getGroupScaleDim ELSE 0)
cursorPoses(f) == cursorMarkers(f) + (IF f.mIncludeMarkerOffsets THEN markerDim ELSE 0)

\* the cursor of unflatten() when it reaches trial k (1-based)
cursorTrial(f, A, k) ==
  cursorPoses(f)
    + SumSeq([j \in 1..(k - 1) |-> cols(A[j]) * NumDofs * PoseBlocks + NumDofs * PoseBlocks])

getProblemSizeOf(f, P, A) ==
  (IF f.mIncludeMasses THEN NumScaleGroups ELSE 0)
  + (IF f.mIncludeCOMs THEN NumScaleGroups * ComDim ELSE 0)
  + (IF f.mIncludeInertias THEN NumScaleGroups * InertiaDim ELSE 0)
  + (IF f.mIncludeBodyScales THEN getGroupScaleDim ELSE 0)
  + (IF f.mIncludeMarkerOffsets THEN NumMarkers * MarkerDim ELSE 0)
  + (IF f.mIncludePoses
       THEN SumSeq([k \in 1..Len(P) |->
                      cols(A[k]) * NumDofs * PoseBlocks + NumDofs * PoseBlocks])
       ELSE 0)

\* flattenTrial with the trailing block written as [q, q, dq]
flattenTrialSwapped(Pk, Vk, Ak) ==
  LET lastAccT == cols(Ak)
  IN  Concat([t \in 1..cols(Ak) |-> Pk[t] \o Vk[t] \o Ak[t]])
        \o Pk[lastAccT + 1] \o Pk[lastAccT + 2] \o Vk[lastAccT + 1]

\* one trial's block of flatten(): (q, dq, ddq) per acceleration column, then
\* the last two q's and the last dq
flattenTrial(Pk, Vk, Ak) ==
  LET lastAccT == cols(Ak)
  IN  Concat([t \in 1..cols(Ak) |-> Pk[t] \o Vk[t] \o Ak[t]])
        \o Pk[lastAccT + 1] \o Vk[lastAccT + 1] \o Pk[lastAccT + 2]

flattenOf(f, sk, mk, P, V, A) ==
  (IF f.mIncludeMasses THEN sk.groupMasses ELSE << >>)
  \o (IF f.mIncludeCOMs THEN sk.groupCOMs ELSE << >>)
  \o (IF f.mIncludeInertias THEN sk.groupInertias ELSE << >>)
  \o (IF f.mIncludeBodyScales THEN sk.groupScales ELSE << >>)
  \o (IF f.mIncludeMarkerOffsets THEN Concat(mk) ELSE << >>)
  \o (IF f.mIncludePoses
        THEN Concat([k \in 1..Len(P) |-> flattenTrial(P[k], V[k], A[k])])
        ELSE << >>)

\* flattenUpperBoundOf with the trailing block bounded as [q, q, dq]
flattenUpperBoundSwapped(f, mk, P, A, ub) ==
  (IF f.mIncludeMasses THEN ub.groupMasses ELSE << >>)
  \o (IF f.mIncludeCOMs THEN ub.groupCOMs ELSE << >>)
  \o (IF f.mIncludeInertias THEN ub.groupInertias ELSE << >>)
  \o (IF f.mIncludeBodyScales THEN ub.groupScales ELSE << >>)
  \o (IF f.mIncludeMarkerOffsets
        THEN Concat([i \in 1..Len(mk) |-> [c \in 1..MarkerDim |-> MarkerOffsetBound]])
        ELSE << >>)
  \o (IF f.mIncludePoses
        THEN Concat([k \in 1..Len(P) |->
               Concat([t \in 1..cols(A[k]) |->
                 ub.positions \o ub.velocities \o ub.accelerations])
               \o ub.positions \o ub.positions \o ub.velocities])
        ELSE << >>)

\* flattenUpperBound(): the skeleton's upper bounds and limits, 5 for a marker
\* offset
flattenUpperBoundOf(f, mk, P, A, ub) ==
  (IF f.mIncludeMasses THEN ub.groupMasses ELSE << >>)
  \o (IF f.mIncludeCOMs THEN ub.groupCOMs ELSE << >>)
  \o (IF f.mIncludeInertias THEN ub.groupInertias ELSE << >>)
  \o (IF f.mIncludeBodyScales THEN ub.groupScales ELSE << >>)
  \o (IF f.mIncludeMarkerOffsets
        THEN Concat([i \in 1..Len(mk) |-> [c \in 1..MarkerDim |-> MarkerOffsetBound]])
        ELSE << >>)
  \o (IF f.mIncludePoses
        THEN Concat([k \in 1..Len(P) |->
               Concat([t \in 1..cols(A[k]) |->
                 ub.positions \o ub.velocities \o ub.accelerations])
               \o ub.positions \o ub.velocities \o ub.positions])
        ELSE << >>)

\* flattenLowerBound(): the lower bounds and limits, -5 for a marker offset
flattenLowerBoundOf(f, mk, P, A, lb) ==
  (IF f.mIncludeMasses THEN lb.groupMasses ELSE << >>)
  \o (IF f.mIncludeCOMs THEN lb.groupCOMs ELSE << >>)
  \o (IF f.mIncludeInertias THEN lb.groupInertias ELSE << >>)
  \o (IF f.mIncludeBodyScales THEN lb.groupScales ELSE << >>)
  \o (IF f.mIncludeMarkerOffsets
        THEN Concat([i \in 1..Len(mk) |-> [c \in 1..MarkerDim |-> -MarkerOffsetBound]])
        ELSE << >>)
  \o (IF f.mIncludePoses
        THEN Concat([k \in 1..Len(P) |->
               Concat([t \in 1..cols(A[k]) |->
                 lb.positions \o lb.velocities \o lb.accelerations])
               \o lb.positions \o lb.velocities \o lb.positions])
        ELSE << >>)

\* the skeleton after unflatten(x)
unflattenSkeleton(x, f, sk, oob) ==
  [sk EXCEPT
     !.groupMasses = IF f.mIncludeMasses THEN segment(x, 0, massDim, oob) ELSE @,
     !.groupCOMs = IF f.mIncludeCOMs THEN segment(x, cursorCOMs(f), comDim, oob) ELSE @,
     !.groupInertias =
        IF f.mIncludeInertias THEN segment(x, cursorInertias(f), inertiaDim, oob) ELSE @,
     !.groupScales =
        IF f.mIncludeBodyScales THEN segment(x, cursorScales(f), getGroupScaleDim, oob) ELSE @]

unflattenMarkers(x, f, mk, oob) ==
  IF f.mIncludeMarkerOffsets
    THEN [i \in 1..Len(mk) |-> segment(x, cursorMarkers(f) + (i - 1) * MarkerDim, MarkerDim, oob)]
    ELSE mk

\* mPoses after unflatten(x): columns 1..accs.cols() from the triples, the
\* last two from the trailing [q, dq, q]
unflattenPoses(x, f, P, A, oob) ==
  IF f.mIncludePoses
    THEN [k \in 1..Len(P) |->
            LET c == cursorTrial(f, A, k)
                n == cols(A[k])
            IN  [t \in 1..cols(P[k]) |->
                   IF t <= n
                     THEN segment(x, c + (t - 1) * NumDofs * PoseBlocks, NumDofs, oob)
                     ELSE IF t = n + 1
                       THEN segment(x, c + n * NumDofs * PoseBlocks, NumDofs, oob)
                       ELSE IF t = n + 2
                         THEN segment(x, c + n * NumDofs * PoseBlocks + 2 * NumDofs, NumDofs, oob)
                         ELSE P[k][t]]]
    ELSE P

unflattenVels(x, f, V, A, oob) ==
  IF f.mIncludePoses
    THEN [k \in 1..Len(V) |->
            LET c == cursorTrial(f, A, k)
                n == cols(A[k])
            IN  [t \in 1..cols(V[k]) |->
                   IF t <= n
                     THEN segment(x, c + (t - 1) * NumDofs * PoseBlocks + NumDofs, NumDofs, oob)
                     ELSE IF t = n + 1
                       THEN segment(x, c + n * NumDofs * PoseBlocks + NumDofs, NumDofs, oob)
                       ELSE V[k][t]]]
    ELSE V

unflattenAccs(x, f, A, oob) ==
  IF f.mIncludePoses
    THEN [k \in 1..Len(A) |->
            LET c == cursorTrial(f, A, k)
            IN  [t \in 1..cols(A[k]) |->
                   segment(x, c + (t - 1) * NumDofs * PoseBlocks + 2 * NumDofs, NumDofs, oob)]]
    ELSE A

\* the memoization guard of unflatten()
unflattenSkips(x, lastX) == Len(x) = Len(lastX) /\ x = lastX

\* ------------------------------------------------- state-level accessors
getProblemSize == getProblemSizeOf(flags, mPoses, mAccs)
flatten == flattenOf(flags, mSkeleton, mMarkers, mPoses, mVels, mAccs)

\* what unflatten(x) leaves in each part of the state (guard included); oob is
\* what a read past the end of x yields
skeletonAfterUnflatten(x, oob) ==
  IF unflattenSkips(x, mLastX) THEN mSkeleton
  ELSE unflattenSkeleton(x, flags, mSkeleton, oob)
markersAfterUnflatten(x, oob) ==
  IF unflattenSkips(x, mLastX) THEN mMarkers
  ELSE unflattenMarkers(x, flags, mMarkers, oob)
posesAfterUnflatten(x, oob) ==
  IF unflattenSkips(x, mLastX) THEN mPoses
  ELSE unflattenPoses(x, flags, mPoses, mAccs, oob)
velsAfterUnflatten(x, oob) ==
  IF unflattenSkips(x, mLastX) THEN mVels
  ELSE unflattenVels(x, flags, mVels, mAccs, oob)
accsAfterUnflatten(x, oob) ==
  IF unflattenSkips(x, mLastX) THEN mAccs
  ELSE unflattenAccs(x, flags, mAccs, oob)

\* unflatten(x), but for the skeleton, which the caller may go on to change
unflattenProblem(x, oob) ==
  /\ mMarkers' = markersAfterUnflatten(x, oob)
  /\ mPoses' = posesAfterUnflatten(x, oob)
  /\ mVels' = velsAfterUnflatten(x, oob)
  /\ mAccs' = accsAfterUnflatten(x, oob)
  /\ mLastX' = x

\* ----------------------------------------------------------- constraints
getConstraintSizeOf(f, A) ==
  IF f.mIncludePoses
    THEN SumSeq([k \in 1..Len(A) |-> cols(A[k]) * NumDofs * 2]) + NumDofs
    ELSE 0

\* the values computeConstraints() writes, in cursor order
constraintWrites(P, V, A, dts) ==
  Concat([k \in 1..Len(A) |->
    LET dt == dts[k]
        lastAccT == cols(A[k])
    IN  Concat([t \in 1..cols(A[k]) |->
          [i \in 1..NumDofs |-> (V[k][t][i] * dt) - (P[k][t + 1][i] - P[k][t][i])]
          \o [i \in 1..NumDofs |-> (A[k][t][i] * dt) - (V[k][t + 1][i] - V[k][t][i])]])
        \o [i \in 1..NumDofs |->
              (V[k][lastAccT + 1][i] * dt)
                - (P[k][lastAccT + 2][i] - P[k][lastAccT + 1][i])]])

\* the vector computeConstraints() returns: Zero(getConstraintSize()) with the
\* writes that land inside it
constraintVector(f, P, V, A, dts) ==
  IF f.mIncludePoses
    THEN LET w == constraintWrites(P, V, A, dts)
         IN  [r \in 1..getConstraintSizeOf(f, A) |-> IF r <= Len(w) THEN w[r] ELSE 0]
    ELSE << >>

\* the cursor lands on the end of the vector (the assert of computeConstraints)
constraintCursorOk(f, P, V, A, dts) ==
  f.mIncludePoses => Len(constraintWrites(P, V, A, dts)) = getConstraintSizeOf(f, A)

\* rowCursor / colCursor of computeSparseConstraintsJacobian() at trial k
rowCursorTrial(A, k) ==
  SumSeq([j \in 1..(k - 1) |-> cols(A[j]) * NumDofs * 2 + NumDofs])
colCursorStart(f) ==
  (IF f.mIncludeMasses THEN NumScaleGroups ELSE 0)
  + (IF f.mIncludeCOMs THEN NumScaleGroups * ComDim ELSE 0)
  + (IF f.mIncludeInertias THEN NumScaleGroups * InertiaDim ELSE 0)
  + (IF f.mIncludeBodyScales THEN getGroupScaleDim ELSE 0)
  + (IF f.mIncludeMarkerOffsets THEN MarkerDim * NumMarkers ELSE 0)
colCursorTrial(f, A, k) ==
  colCursorStart(f)
    + SumSeq([j \in 1..(k - 1) |-> cols(A[j]) * NumDofs * PoseBlocks + NumDofs * PoseBlocks])

\* the three triples of dof i's velocity constraint at one timestep:
\* constraints(row) = (dq_t0 * dt) - (q_t1 - q_t0)
velocityTriples(rowCursor, colCursor, dt, i) ==
  LET q_i_t0 == colCursor + i
      q_i_t1 == colCursor + (NumDofs * 3) + i
      dq_i_t0 == colCursor + NumDofs + i
  IN  << << rowCursor, q_i_t0, 1 >>, << rowCursor, q_i_t1, -1 >>,
         << rowCursor, dq_i_t0, dt >> >>

\* ... of dof i's acceleration constraint:
\* constraints(row) = (ddq_t0 * dt) - (dq_t1 - dq_t0)
accelerationTriples(rowCursor, colCursor, dt, i) ==
  LET dq_i_t0 == colCursor + NumDofs + i
      dq_i_t1 == colCursor + (NumDofs * 3) + NumDofs + i
      ddq_i_t0 == colCursor + (NumDofs * 2) + i
  IN  << << rowCursor, dq_i_t0, 1 >>, << rowCursor, dq_i_t1, -1 >>,
         << rowCursor, ddq_i_t0, dt >> >>

\* lastVelocityTriples with the later q looked up one block too far
lastVelocityTriplesTooFar(rowCursor, colCursor, dt, i) ==
  LET q_i_t0 == colCursor + i
      q_i_t1 == colCursor + (NumDofs * 3) + i
      dq_i_t0 == colCursor + NumDofs + i
  IN  << << rowCursor, q_i_t0, 1 >>, << rowCursor, q_i_t1, -1 >>,
         << rowCursor, dq_i_t0, dt >> >>

\* ... of dof i's last dq constraint, over the trailing [q, dq, q]
lastVelocityTriples(rowCursor, colCursor, dt, i) ==
  LET q_i_t0 == colCursor + i
      q_i_t1 == colCursor + (NumDofs * 2) + i
      dq_i_t0 == colCursor + NumDofs + i
  IN  << << rowCursor, q_i_t0, 1 >>, << rowCursor, q_i_t1, -1 >>,
         << rowCursor, dq_i_t0, dt >> >>

\* (row, col, value) triples, 0-based as in the code, in emission order
computeSparseConstraintsJacobianOf(f, A, dts) ==
  IF f.mIncludePoses
    THEN Concat([k \in 1..Len(A) |->
      LET dt == dts[k]
          n == cols(A[k])
          row0 == rowCursorTrial(A, k)
          col0 == colCursorTrial(f, A, k)
      IN  Concat([t \in 1..n |->
            LET colCursor == col0 + (t - 1) * NumDofs * 3
                rowCursor == row0 + (t - 1) * NumDofs * 2
            IN  Concat([i \in 1..NumDofs |->
                  velocityTriples(rowCursor + (i - 1), colCursor, dt, i - 1)])
                \o Concat([i \in 1..NumDofs |->
                  accelerationTriples(rowCursor + NumDofs + (i - 1), colCursor, dt, i - 1)])])
          \o Concat([i \in 1..NumDofs |->
               lastVelocityTriples(row0 + n * NumDofs * 2 + (i - 1),
                                   col0 + n * NumDofs * 3, dt, i - 1)])])
    ELSE << >>

\* every triple lands inside the dense matrix
triplesFit(f, P, A, dts) ==
  LET sparse == computeSparseConstraintsJacobianOf(f, A, dts)
  IN  \A n \in 1..Len(sparse) :
        /\ sparse[n][1] < getConstraintSizeOf(f, A)
        /\ sparse[n][2] < getProblemSizeOf(f, P, A)

\* J(row, col) of computeConstraintsJacobian(): Zero(constraintDim, problemDim)
\* with each triple that lands inside it assigned (rows and columns 0-based)
computeConstraintsJacobianOf(f, P, A, dts) ==
  LET sparse == computeSparseConstraintsJacobianOf(f, A, dts)
      constraintDim == IF f.mIncludePoses THEN getConstraintSizeOf(f, A) ELSE 0
      problemDim == IF f.mIncludePoses THEN getProblemSizeOf(f, P, A) ELSE 0
  IN  [rc \in (0..(constraintDim - 1)) \X (0..(problemDim - 1)) |->
         IF \E n \in 1..Len(sparse) : sparse[n][1] = rc[1] /\ sparse[n][2] = rc[2]
           THEN (LET n == CHOOSE m \in 1..Len(sparse) :
                             /\ sparse[m][1] = rc[1] /\ sparse[m][2] = rc[2]
                             /\ \A m2 \in (m + 1)..Len(sparse) :
                                  ~(sparse[m2][1] = rc[1] /\ sparse[m2][2] = rc[2])
                 IN  sparse[n][3])
           ELSE 0]

getConstraintSize == getConstraintSizeOf(flags, mAccs)
computeSparseConstraintsJacobian ==
  computeSparseConstraintsJacobianOf(flags, mAccs, trialTimesteps)
computeConstraintsJacobian ==
  computeConstraintsJacobianOf(flags, mPoses, mAccs, trialTimesteps)

\* ------------------------------------------------------------ the inputs
AllFlags == [mIncludeMasses : BOOLEAN, mIncludeCOMs : BOOLEAN,
             mIncludeInertias : BOOLEAN, mIncludeBodyScales : BOOLEAN,
             mIncludePoses : BOOLEAN, mIncludeMarkerOffsets : BOOLEAN]

\* frames per trial, for one to MaxTrials trials
Shapes == UNION {[1..n -> MinFrames..MaxFrames] : n \in 1..MaxTrials}

\* trial k runs at dt 1 or 2, alternating
timestepsOf(shape) == [k \in 1..Len(shape) |-> 1 + (k % 2)]

\* input poses: multiples of dt^2, so that the constructor's quotients are exact
inputPosesOf(shape, dts, p) ==
  [k \in 1..Len(shape) |->
     [t \in 1..shape[k] |->
        [i \in 1..NumDofs |-> dts[k] * dts[k] * ((p * t * t + k + i) % XMod)]]]

\* flags per frame of every trial that has flags
missingOf(shape, n, g) ==
  [k \in 1..n |->
     [t \in 1..shape[((k - 1) % Len(shape)) + 1] |-> ((t + k + g) % 2) = 0]]

vectorOf(n, a, b) == [i \in 1..n |-> (a * i + b) % XMod]
PatternX(n) == {vectorOf(n, a, b) : a \in 1..(XMod - 1), b \in 0..1}

skeletonAtStart ==
  [groupMasses |-> [i \in 1..massDim |-> 10 + i],
   groupCOMs |-> [i \in 1..comDim |-> 20 + i],
   groupInertias |-> [i \in 1..inertiaDim |-> 30 + i],
   groupScales |-> [i \in 1..getGroupScaleDim |-> 40 + i],
   positions |-> [i \in 1..NumDofs |-> 7],
   velocities |-> [i \in 1..NumDofs |-> 8],
   accelerations |-> [i \in 1..NumDofs |-> 9]]

markersAtStart == [m \in 1..NumMarkers |-> [i \in 1..MarkerDim |-> 50 + i]]

\* the skeleton's bounds on its group parameters and limits on its state, a
\* different one for every kind of entry
skeletonUpperBounds ==
  [groupMasses |-> [i \in 1..massDim |-> 110 + i],
   groupCOMs |-> [i \in 1..comDim |-> 120 + i],
   groupInertias |-> [i \in 1..inertiaDim |-> 130 + i],
   groupScales |-> [i \in 1..getGroupScaleDim |-> 140 + i],
   positions |-> [i \in 1..NumDofs |-> 170 + i],
   velocities |-> [i \in 1..NumDofs |-> 180 + i],
   accelerations |-> [i \in 1..NumDofs |-> 190 + i]]
skeletonLowerBounds ==
  [n \in DOMAIN skeletonUpperBounds |->
     [i \in DOMAIN skeletonUpperBounds[n] |-> -skeletonUpperBounds[n][i]]]

\* createInitialization(): init's copies of what the skeleton and the marker
\* map hold
createInitialization(sk, mk) ==
  [groupScales |-> sk.groupScales,
   bodyCom |-> sk.groupCOMs,
   bodyInertia |-> sk.groupInertias,
   bodyMasses |-> sk.groupMasses,
   markerOffsets |-> mk]

noBest == [isInf |-> TRUE, value |-> 0, iteration |-> 0, state |-> << >>]

\* what an uninitialized or out-of-range read may yield
OobValues == {0, XMod}

\* the names of the fitter's marker map, in map order
mMarkerNames == [i \in 1..NumMarkers |-> i]

\* the marker maps createInitialization may have been given: the fitter's own
\* names, or all but the last of them
MarkerKeySets == {1..NumMarkers, 1..(NumMarkers - 1)}

\* the copies createInitialization keeps as regularization targets; names is
\* the key set of its marker map and rawPoses the poses as handed in
createOriginals(rawPoses, sk, mk, names) ==
  [originalPoses |-> rawPoses,
   originalGroupMasses |-> sk.groupMasses,
   originalGroupCOMs |-> sk.groupCOMs,
   originalGroupInertias |-> sk.groupInertias,
   originalGroupScales |-> sk.groupScales,
   originalMarkerOffsets |-> [n \in names |-> mk[n]]]

InitOriginals(shape, names) ==
  originals = createOriginals(inputPosesOf(shape, timestepsOf(shape), 2),
                              skeletonAtStart, markersAtStart, names)

noContacts ==
  [contactBodies |-> << >>, grfBodyContactSphereRadius |-> << >>,
   groundHeight |-> << >>, flatGround |-> << >>,
   defaultForcePlateCorners |-> << >>, grfBodyForceActive |-> << >>,
   grfBodySphereInContact |-> << >>, grfBodyOffForcePlate |-> << >>]

\* the specifications of DynamicsFitProblem alone keep the fitter's side of
\* init out of the picture
FitterIdle ==
  /\ world = << >>
  /\ forcePlateTrials = << >>
  /\ grfTrials = << >>
  /\ contacts = noContacts

\* init->markerObservationTrials: per frame, the observed position of every
\* marker that was seen in it
markerObservationsOf(shape) ==
  [k \in 1..Len(shape) |->
     [t \in 1..shape[k] |->
        [i \in {i \in 1..NumMarkers : (i + t + k) % 3 # 0} |->
           [c \in 1..MarkerDim |-> (i + t + c) % XMod]]]]

\* the columns of a matrix that runs over the frames of all trials, trial after
\* trial, dealt out to trials of frames[k] columns (the cursor loops)
splitColumns(frames, columns) ==
  [k \in 1..Len(frames) |->
     [t \in 1..frames[k] |->
        columns[SumSeq([j \in 1..(k - 1) |-> frames[j]]) + t]]]

copyJointColumns(P, columns) ==
  splitColumns([k \in 1..Len(P) |-> cols(P[k])], columns)

\* init->jointCenters and init->jointAxis of a kinematic fit that found no
\* joints: one column without rows per frame
noJoints(P) ==
  LET columns == [c \in 1..SumSeq([k \in 1..Len(P) |-> cols(P[k])]) |-> << >>]
  IN  [jointCenters |-> copyJointColumns(P, columns),
       jointAxis |-> copyJointColumns(P, columns)]

\* new DynamicsFitProblem(init, skeleton, ...) over the given trials
InitProblem(shape) ==
  LET dts == timestepsOf(shape)
      q == inputPosesOf(shape, dts, 1)
  IN  /\ trialTimesteps = dts
      /\ poseTrials = q
      /\ initParams = createInitialization(skeletonAtStart, markersAtStart)
      /\ flags = [mIncludeMasses |-> TRUE, mIncludeCOMs |-> TRUE,
                  mIncludeInertias |-> TRUE, mIncludeBodyScales |-> TRUE,
                  mIncludePoses |-> TRUE, mIncludeMarkerOffsets |-> TRUE]
      /\ mSkeleton = skeletonAtStart
      /\ mMarkers = markersAtStart
      /\ mPoses = q
      /\ mVels = [k \in 1..Len(shape) |-> ctorVels(q[k], dts[k])]
      /\ mAccs = [k \in 1..Len(shape) |-> ctorAccs(q[k], dts[k])]
      /\ mLastX = << >>
      /\ mBest = noBest
      /\ phase = "config"
      /\ last = [op |-> "new"]
      /\ hist = [calls |-> 0, feasible |-> FALSE, min |-> 0, evaluated |-> {}]
      /\ initJoints = noJoints(q)
      /\ given = [markerObservationTrials |-> markerObservationsOf(shape)]
      /\ FitterIdle

\* ------------------------------------------------------------ the setters
\* (the setters assign the flag and nothing else: mLastX is left alone)
setInclude(f) ==
  /\ flags' = f
  /\ last' = [op |-> "setInclude"]
  /\ UNCHANGED << fitterVars, originals, trialTimesteps, poseTrials, probablyMissingGRF, initParams,
                  mSkeleton, mMarkers, mPoses, mVels, mAccs, mLastX, mBest,
                  phase, hist >>

setIncludeMasses == \E v \in BOOLEAN : setInclude([flags EXCEPT !.mIncludeMasses = v])
setIncludeCOMs == \E v \in BOOLEAN : setInclude([flags EXCEPT !.mIncludeCOMs = v])
setIncludeInertias == \E v \in BOOLEAN : setInclude([flags EXCEPT !.mIncludeInertias = v])
setIncludePoses == \E v \in BOOLEAN : setInclude([flags EXCEPT !.mIncludePoses = v])
setIncludeMarkerOffsets ==
  \E v \in BOOLEAN : setInclude([flags EXCEPT !.mIncludeMarkerOffsets = v])
setIncludeBodyScales == \E v \in BOOLEAN : setInclude([flags EXCEPT !.mIncludeBodyScales = v])

SetIncludes ==
  \/ setIncludeMasses
  \/ setIncludeCOMs
  \/ setIncludeInertias
  \/ setIncludePoses
  \/ setIncludeMarkerOffsets
  \/ setIncludeBodyScales

\* -------------------------------------------------- vectors handed to calls
\* a trajectory whose velocities and accelerations are the finite differences
\* of its positions, as the constructor builds it, in the current layout
consistentX(p) ==
  LET shape == [k \in 1..Len(mPoses) |-> cols(mPoses[k])]
      q == inputPosesOf(shape, trialTimesteps, p)
  IN  flattenOf(flags, skeletonAtStart, markersAtStart, q,
                [k \in 1..Len(q) |-> ctorVels(q[k], trialTimesteps[k])],
                [k \in 1..Len(q) |-> ctorAccs(q[k], trialTimesteps[k])])
PosePatterns == 1..2
ConsistentX == {consistentX(p) : p \in PosePatterns}
\* where flatten() puts the velocity and the acceleration of trial k, column t,
\* dof i (1-based index into x)
velocityIndex(f, A, k, t, i) == cursorTrial(f, A, k) + (t - 1) * NumDofs * PoseBlocks + NumDofs + i
accelerationIndex(f, A, k, t, i) ==
  cursorTrial(f, A, k) + (t - 1) * NumDofs * PoseBlocks + 2 * NumDofs + i
VelocityEntries == {<< k, t, i >> \in (1..MaxTrials) \X (1..MaxFrames) \X (1..NumDofs) :
                      k <= Len(mVels) /\ t <= cols(mVels[k])}
AccelerationEntries == {<< k, t, i >> \in (1..MaxTrials) \X (1..MaxFrames) \X (1..NumDofs) :
                          k <= Len(mAccs) /\ t <= cols(mAccs[k])}
\* ... with one velocity or one acceleration entry changed
PerturbedX ==
  IF flags.mIncludePoses
    THEN {[consistentX(1) EXCEPT ![velocityIndex(flags, mAccs, e[1], e[2], e[3])] = @ + 1] :
            e \in VelocityEntries}
         \cup
         {[consistentX(1) EXCEPT ![accelerationIndex(flags, mAccs, e[1], e[2], e[3])] = @ + 1] :
            e \in AccelerationEntries}
    ELSE {}

\* vectors handed to unflatten(), and to computeConstraints()
LayoutX == PatternX(getProblemSize) \cup {flatten}
ConstraintX == ConsistentX \cup PerturbedX

\* ------------------------------------------------------------- unflatten
Unflatten(x) ==
  /\ phase \in {"config", "solve"}
  /\ mSkeleton' = skeletonAfterUnflatten(x, 0)
  /\ unflattenProblem(x, 0)
  /\ phase' = "solve"
  /\ last' = [op |-> "unflatten", x |-> x]
  /\ UNCHANGED << fitterVars, originals, trialTimesteps, poseTrials, probablyMissingGRF, initParams,
                  flags, mBest, hist >>

\* ---------------------------------------------------- computeConstraints
\* Without poses nothing is unflattened.  When the writes do not fit the
\* vector, a build with assertions aborts and one without returns what fits.
ComputeConstraints(x, withAsserts) ==
  /\ phase \in {"config", "solve"}
  /\ IF flags.mIncludePoses
       THEN /\ mSkeleton' = skeletonAfterUnflatten(x, 0)
            /\ unflattenProblem(x, 0)
       ELSE UNCHANGED << mSkeleton, mMarkers, mPoses, mVels, mAccs, mLastX >>
  /\ LET P == IF flags.mIncludePoses THEN posesAfterUnflatten(x, 0) ELSE mPoses
         V == IF flags.mIncludePoses THEN velsAfterUnflatten(x, 0) ELSE mVels
         A == IF flags.mIncludePoses THEN accsAfterUnflatten(x, 0) ELSE mAccs
     IN  IF withAsserts /\ ~constraintCursorOk(flags, P, V, A, trialTimesteps)
           THEN /\ phase' = "aborted"
                /\ last' = [op |-> "computeConstraints", x |-> x, returned |-> FALSE]
           ELSE /\ phase' = "solve"
                /\ last' = [op |-> "computeConstraints", x |-> x, returned |-> TRUE,
                            value |-> constraintVector(flags, P, V, A, trialTimesteps)]
  /\ UNCHANGED << fitterVars, originals, trialTimesteps, poseTrials, probablyMissingGRF, initParams,
                  flags, mBest, hist >>

\* ------------------------- the constraint Jacobian, sparse and dense
\* (the Jacobian does not read x: it is asked for once the flags are set, as
\* get_nlp_info does)
ComputeSparseConstraintsJacobian ==
  /\ phase = "config"
  /\ phase' = "solve"
  /\ last' = [op |-> "computeSparseConstraintsJacobian",
              value |-> computeSparseConstraintsJacobian]
  /\ UNCHANGED << fitterVars, originals, trialTimesteps, poseTrials, probablyMissingGRF, initParams,
                  flags, mSkeleton, mMarkers, mPoses, mVels, mAccs, mLastX,
                  mBest, hist >>

\* A triple outside the matrix aborts a build with assertions; one without
\* returns the matrix with the triples that fit.
ComputeConstraintsJacobian(withAsserts) ==
  /\ phase = "config"
  /\ IF withAsserts /\ ~triplesFit(flags, mPoses, mAccs, trialTimesteps)
          /\ flags.mIncludePoses
       THEN /\ phase' = "aborted"
            /\ last' = [op |-> "computeConstraintsJacobian", returned |-> FALSE]
       ELSE /\ phase' = "solve"
            /\ last' = [op |-> "computeConstraintsJacobian", returned |-> TRUE,
                        value |-> computeConstraintsJacobian]
  /\ UNCHANGED << fitterVars, originals, trialTimesteps, poseTrials, probablyMissingGRF, initParams,
                  flags, mSkeleton, mMarkers, mPoses, mVels, mAccs, mLastX,
                  mBest, hist >>

\* ------------------------------------------------- the bounds of the layout
\* (asked for once the flags are set, as get_bounds_info does)
flattenUpperBound ==
  flattenUpperBoundOf(flags, mMarkers, mPoses, mAccs, skeletonUpperBounds)
flattenLowerBound ==
  flattenLowerBoundOf(flags, mMarkers, mPoses, mAccs, skeletonLowerBounds)

FlattenBound(op, value) ==
  /\ phase = "config"
  /\ phase' = "solve"
  /\ last' = [op |-> op, value |-> value]
  /\ UNCHANGED << fitterVars, originals, trialTimesteps, poseTrials, probablyMissingGRF,
                  initParams, flags, mSkeleton, mMarkers, mPoses, mVels, mAccs,
                  mLastX, mBest, hist >>

FlattenUpperBound == FlattenBound("flattenUpperBound", flattenUpperBound)
FlattenLowerBound == FlattenBound("flattenLowerBound", flattenLowerBound)

\* ------------------------------------------- the layout and its constraints
\* (the flags are set before the problem is used, as runOptimization does)
InitLayout ==
  /\ \E shape \in Shapes : InitProblem(shape) /\ InitOriginals(shape, 1..NumMarkers)
  /\ probablyMissingGRF = << >>

NextLayout ==
  \/ phase = "config" /\ SetIncludes
  \/ \E x \in LayoutX : Unflatten(x)
  \/ \E x \in ConstraintX, withAsserts \in BOOLEAN : ComputeConstraints(x, withAsserts)
  \/ ComputeSparseConstraintsJacobian
  \/ \E withAsserts \in BOOLEAN : ComputeConstraintsJacobian(withAsserts)
  \/ FlattenUpperBound
  \/ FlattenLowerBound

SpecLayout == InitLayout /\ [][NextLayout]_vars

\* ---------------------------------------------------- ResidualForceHelper
\* what a call leaves in the skeleton's positions, velocities, accelerations
kinematics(sk) ==
  [positions |-> sk.positions, velocities |-> sk.velocities,
   accelerations |-> sk.accelerations]

setState(sk, q, dq, ddq) ==
  [sk EXCEPT !.positions = q, !.velocities = dq, !.accelerations = ddq]

WithRespectTo == {"POSITION", "VELOCITY", "ACCELERATION", "GROUP_SCALES",
                  "GROUP_MASSES", "GROUP_COMS", "GROUP_INERTIAS", "FORCE"}

\* wrt->get(skel) and wrt->set(skel, value), as far as the kinematic state goes
wrtGet(sk, wrt) ==
  IF wrt = "POSITION" THEN sk.positions
  ELSE IF wrt = "VELOCITY" THEN sk.velocities
  ELSE IF wrt = "ACCELERATION" THEN sk.accelerations
  ELSE << >>
wrtSet(sk, wrt, value) ==
  IF wrt = "POSITION" THEN [sk EXCEPT !.positions = value]
  ELSE IF wrt = "VELOCITY" THEN [sk EXCEPT !.velocities = value]
  ELSE IF wrt = "ACCELERATION" THEN [sk EXCEPT !.accelerations = value]
  ELSE sk

calculateResidual(sk, q, dq, ddq) ==
  LET originalPos == sk.positions
      originalVel == sk.velocities
      originalAcc == sk.accelerations
  IN  setState(setState(sk, q, dq, ddq), originalPos, originalVel, originalAcc)

calculateResidualNorm(sk, q, dq, ddq) == calculateResidual(sk, q, dq, ddq)

\* the perturbed evaluations happen at the state the call has set; the
\* parameter is put back before the state is
finiteDifferenceResidualJacobianWrt(sk, q, dq, ddq, wrt) ==
  LET originalPos == sk.positions
      originalVel == sk.velocities
      originalAcc == sk.accelerations
      atCall == setState(sk, q, dq, ddq)
      originalWrt == wrtGet(atCall, wrt)
      perturbed == calculateResidual(atCall, atCall.positions, atCall.velocities,
                                     atCall.accelerations)
  IN  setState(wrtSet(perturbed, wrt, originalWrt),
               originalPos, originalVel, originalAcc)

finiteDifferenceResidualNormGradientWrt(sk, q, dq, ddq, wrt) ==
  LET originalPos == sk.positions
      originalVel == sk.velocities
      originalAcc == sk.accelerations
      atCall == setState(sk, q, dq, ddq)
      originalWrt == wrtGet(atCall, wrt)
      perturbed == calculateResidualNorm(atCall, atCall.positions, atCall.velocities,
                                         atCall.accelerations)
  IN  setState(wrtSet(perturbed, wrt, originalWrt),
               originalPos, originalVel, originalAcc)

\* every branch ends with the same three restoring calls
calculateResidualJacobianWrt(sk, q, dq, ddq, wrt) ==
  LET originalPos == sk.positions
      originalVel == sk.velocities
      originalAcc == sk.velocities
      atCall == setState(sk, q, dq, ddq)
      analytical == {"POSITION", "GROUP_SCALES", "GROUP_MASSES", "GROUP_COMS",
                     "GROUP_INERTIAS", "VELOCITY", "ACCELERATION"}
      evaluated == IF wrt \in analytical THEN atCall
                   ELSE finiteDifferenceResidualJacobianWrt(atCall, q, dq, ddq, wrt)
  IN  setState(evaluated, originalPos, originalVel, originalAcc)

calculateResidualNormGradientWrt(sk, q, dq, ddq, wrt) ==
  calculateResidualJacobianWrt(calculateResidual(sk, q, dq, ddq), q, dq, ddq, wrt)

\* a call of one helper method on the shared skeleton
HelperCall(op, after, args) ==
  /\ phase \in {"config", "solve"}
  /\ mSkeleton' = after
  /\ last' = [op |-> op, args |-> args, before |-> kinematics(mSkeleton)]
  /\ phase' = "solve"
  /\ UNCHANGED << fitterVars, originals, trialTimesteps, poseTrials, probablyMissingGRF, initParams,
                  flags, mMarkers, mPoses, mVels, mAccs, mLastX, mBest, hist >>

StateValues == [1..NumDofs -> 0..1]

CalculateResidual ==
  \E q, dq, ddq \in StateValues :
    HelperCall("calculateResidual", calculateResidual(mSkeleton, q, dq, ddq),
               << q, dq, ddq >>)
CalculateResidualNorm ==
  \E q, dq, ddq \in StateValues :
    HelperCall("calculateResidualNorm", calculateResidualNorm(mSkeleton, q, dq, ddq),
               << q, dq, ddq >>)
CalculateResidualJacobianWrt ==
  \E q, dq, ddq \in StateValues, wrt \in WithRespectTo :
    HelperCall("calculateResidualJacobianWrt",
               calculateResidualJacobianWrt(mSkeleton, q, dq, ddq, wrt),
               << q, dq, ddq, wrt >>)
FiniteDifferenceResidualJacobianWrt ==
  \E q, dq, ddq \in StateValues, wrt \in WithRespectTo :
    HelperCall("finiteDifferenceResidualJacobianWrt",
               finiteDifferenceResidualJacobianWrt(mSkeleton, q, dq, ddq, wrt),
               << q, dq, ddq, wrt >>)
CalculateResidualNormGradientWrt ==
  \E q, dq, ddq \in StateValues, wrt \in WithRespectTo :
    HelperCall("calculateResidualNormGradientWrt",
               calculateResidualNormGradientWrt(mSkeleton, q, dq, ddq, wrt),
               << q, dq, ddq, wrt >>)
FiniteDifferenceResidualNormGradientWrt ==
  \E q, dq, ddq \in StateValues, wrt \in WithRespectTo :
    HelperCall("finiteDifferenceResidualNormGradientWrt",
               finiteDifferenceResidualNormGradientWrt(mSkeleton, q, dq, ddq, wrt),
               << q, dq, ddq, wrt >>)

HelperOps == {"calculateResidual", "calculateResidualNorm",
              "calculateResidualJacobianWrt", "finiteDifferenceResidualJacobianWrt",
              "calculateResidualNormGradientWrt",
              "finiteDifferenceResidualNormGradientWrt"}

NextHelper ==
  \/ CalculateResidual
  \/ CalculateResidualNorm
  \/ CalculateResidualJacobianWrt
  \/ FiniteDifferenceResidualJacobianWrt
  \/ CalculateResidualNormGradientWrt
  \/ FiniteDifferenceResidualNormGradientWrt

SpecHelper == InitLayout /\ [][NextHelper]_vars

\* ------------------------------------------- computeLoss, computeGradient
\* (trial, t) in the order the two nested loops visit them
timesteps(P) == Concat([k \in 1..Len(P) |-> [t \in 1..cols(P[k]) |-> << k, t >>]])

\* isMissing that reports no timestep as missing
isMissingNever(missing, k, t) == FALSE

\* mInit->probablyMissingGRF[trial][t]
isMissing(missing, k, t) == missing[k][t]

\* one pass of computeLoss's inner loop: the skeleton it leaves and the
\* timesteps whose residual norm it has added
lossStep(acc, P, V, A, missing, k, t) ==
  LET sk == [acc.sk EXCEPT !.positions = P[k][t]]
  IN  IF t <= cols(A[k]) /\ ~isMissing(missing, k, t)
        THEN [sk |-> calculateResidualNorm(sk, P[k][t], V[k][t], A[k][t]),
              terms |-> acc.terms \cup {<< k, t >>}]
        ELSE [sk |-> sk, terms |-> acc.terms]

\* (the loops hand their accumulator on by value: the next pass is applied to
\* the one element of the set holding this pass's result)
RECURSIVE lossLoop(_, _, _, _, _, _)
lossLoop(acc, steps, P, V, A, missing) ==
  IF steps = << >> THEN acc
  ELSE CHOOSE r \in
         {lossLoop(next, rest, P, V, A, missing) :
            next \in {lossStep(acc, P, V, A, missing, Head(steps)[1], Head(steps)[2])},
            rest \in {Tail(steps)}} : TRUE

\* the blocks of the gradient that take a residual term, in code order
residualBlocks ==
  << << "mIncludeMasses", "GROUP_MASSES" >>, << "mIncludeCOMs", "GROUP_COMS" >>,
     << "mIncludeInertias", "GROUP_INERTIAS" >>,
     << "mIncludeBodyScales", "GROUP_SCALES" >>,
     << "mIncludePoses", "POSITION" >>, << "mIncludePoses", "VELOCITY" >>,
     << "mIncludePoses", "ACCELERATION" >> >>

\* one block of the gradient at timestep t of trial k
gradientBlock(acc, b, f, P, V, A, missing, k, t) ==
  IF f[b[1]] /\ ~isMissing(missing, k, t)
    THEN [sk |-> calculateResidualNormGradientWrt(
                   acc.sk, P[k][t], V[k][t], A[k][t], b[2]),
          terms |-> acc.terms \cup {<< k, t, b[2] >>}]
    ELSE acc

RECURSIVE gradientBlocks(_, _, _, _, _, _, _, _, _)
gradientBlocks(acc, blocks, f, P, V, A, missing, k, t) ==
  IF blocks = << >> THEN acc
  ELSE CHOOSE r \in
         {gradientBlocks(next, rest, f, P, V, A, missing, k, t) :
            next \in {gradientBlock(acc, Head(blocks), f, P, V, A, missing, k, t)},
            rest \in {Tail(blocks)}} : TRUE

\* one pass of computeGradient's inner loop
gradientStep(acc, f, P, V, A, missing, k, t) ==
  LET sk == [acc.sk EXCEPT !.positions = P[k][t]]
  IN  IF t <= cols(A[k])
        THEN gradientBlocks([sk |-> sk, terms |-> acc.terms], residualBlocks,
                            f, P, V, A, missing, k, t)
        ELSE [sk |-> sk, terms |-> acc.terms]

RECURSIVE gradientLoop(_, _, _, _, _, _, _)
gradientLoop(acc, steps, f, P, V, A, missing) ==
  IF steps = << >> THEN acc
  ELSE CHOOSE r \in
         {gradientLoop(next, rest, f, P, V, A, missing) :
            next \in {gradientStep(acc, f, P, V, A, missing,
                                   Head(steps)[1], Head(steps)[2])},
            rest \in {Tail(steps)}} : TRUE

\* mInit->originalMarkerOffsets[mMarkerNames[i]] for every marker: operator[]
\* of std::map adds a default-constructed entry for a name that has none, and
\* the coordinates of a default-constructed vector are indeterminate
markerOffsetsAfterLookup(offsets, names, garbage) ==
  [n \in DOMAIN offsets \cup {names[i] : i \in DOMAIN names} |->
     IF n \in DOMAIN offsets THEN offsets[n] ELSE [c \in 1..MarkerDim |-> garbage]]

\* ---------------------------------------------- the values of the evaluators
\* computeLoss and computeGradient as numbers: the regularization terms, the
\* marker term with squared norms and the pose regularization.  The residual
\* term comes from the skeleton's inverse dynamics and is taken with
\* setResidualWeight(0); init->joints is empty.  Weights are in units of 0.05
\* and every value is multiplied by lossScale, which makes the quotients
\* 1.0 / getNumScaleGroups() and the like whole numbers.

\* trackingMarkers holds every second marker
mMarkerIsTracking(i) == i % 2 = 0

markerRegularizationWeight(i) ==
  IF mMarkerIsTracking(i) THEN mRegularizeTrackingMarkerOffsets
  ELSE mRegularizeAnatomicalMarkerOffsets

\* getMarkerWorldPositions: a marker sits at its offset on a body that the
\* joint positions translate, coordinate c along with dof dofOfAxis(c)
dofOfAxis(c) == ((c - 1) % NumDofs) + 1
markerWorldPosition(offset, q) ==
  [c \in 1..MarkerDim |-> offset[c] + q[dofOfAxis(c)]]

\* the observed markers of all frames
markerCountOf(obs) ==
  SumSeq(Concat([k \in 1..Len(obs) |->
           [t \in 1..Len(obs[k]) |-> Cardinality(DOMAIN obs[k][t])]]))

totalTimestepsOf(P) == SumSeq([k \in 1..Len(P) |-> cols(P[k])])

lossScale(P, mk, obs) ==
  NumScaleGroups * Len(mk) * totalTimestepsOf(P)
    * (IF markerCountOf(obs) > 0 THEN markerCountOf(obs) ELSE 1)

\* the sum computeLoss returns
computeLossValue(sk, mk, P, o, obs) ==
  LET K == lossScale(P, mk, obs)
      regularization(weight, now, original) ==
        weight * (K \div NumScaleGroups) * squaredNorm(subVec(now, original))
      markerRegularization ==
        SumSeq([i \in 1..Len(mk) |->
          IF mMarkerNames[i] \in DOMAIN o.originalMarkerOffsets
            THEN markerRegularizationWeight(i) * (K \div Len(mk))
                   * squaredNorm(subVec(mk[i], o.originalMarkerOffsets[mMarkerNames[i]]))
            ELSE 0])
      markerCost(k, t) ==
        SumSeq([i \in 1..Len(mk) |->
          IF mMarkerNames[i] \in DOMAIN obs[k][t]
            THEN squaredNorm(subVec(obs[k][t][mMarkerNames[i]],
                                    markerWorldPosition(mk[i], P[k][t])))
            ELSE 0])
      markerRMS ==
        SumSeq(Concat([k \in 1..Len(P) |-> [t \in 1..cols(P[k]) |-> markerCost(k, t)]]))
      poseRegularization ==
        SumSeq(Concat([k \in 1..Len(P) |-> [t \in 1..cols(P[k]) |->
          mRegularizePoses * (K \div totalTimestepsOf(P))
            * squaredNorm(subVec(P[k][t], o.originalPoses[k][t]))]]))
  IN  regularization(mRegularizeMasses, sk.groupMasses, o.originalGroupMasses)
      + regularization(mRegularizeCOMs, sk.groupCOMs, o.originalGroupCOMs)
      + regularization(mRegularizeInertias, sk.groupInertias, o.originalGroupInertias)
      + regularization(mRegularizeBodyScales, sk.groupScales, o.originalGroupScales)
      + markerRegularization
      + (IF markerCountOf(obs) > 0
           THEN mMarkerWeight * (K \div markerCountOf(obs)) * markerRMS
           ELSE mMarkerWeight * markerRMS)
      + poseRegularization

\* posesCursor that moves on by one block at a boundary frame, without the
\* skip over its velocity
posesCursorStepNoSkip(A, V, k, t) ==
  IF t <= cols(A[k]) THEN PoseBlocks * NumDofs ELSE NumDofs

\* what one frame adds to posesCursor when poses are included: three blocks
\* where the frame has an acceleration, else the position block and, where
\* the frame has a velocity, a skip over it
posesCursorStep(A, V, k, t) ==
  IF t <= cols(A[k]) THEN PoseBlocks * NumDofs
  ELSE NumDofs + (IF t <= cols(V[k]) THEN NumDofs ELSE 0)

\* posesCursor at the start of every pass of the loop over the frames, and
\* at its end
RECURSIVE gradientCursors(_, _, _, _, _)
gradientCursors(posesCursor, steps, f, A, V) ==
  IF steps = << >> THEN << posesCursor >>
  ELSE << posesCursor >>
         \o gradientCursors(
              posesCursor + (IF f.mIncludePoses
                               THEN posesCursorStep(A, V, Head(steps)[1], Head(steps)[2])
                               ELSE 0),
              Tail(steps), f, A, V)

\* the places of grad the loop adds to for each frame: position, velocity
\* and acceleration blocks of a frame with an acceleration, the position
\* block of a boundary frame
gradientWrites(start, f, P, V, A) ==
  LET frames == timesteps(P)
      cursors == gradientCursors(start, frames, f, A, V)
      at(n, wrt, offset) ==
        [trial |-> frames[n][1], t |-> frames[n][2], wrt |-> wrt,
         at |-> cursors[n] + offset]
  IN  IF f.mIncludePoses
        THEN UNION {IF frames[n][2] <= cols(A[frames[n][1]])
                      THEN {at(n, "POSITION", 0), at(n, "VELOCITY", NumDofs),
                            at(n, "ACCELERATION", 2 * NumDofs)}
                      ELSE {at(n, "POSITION", 0)} : n \in 1..Len(frames)}
        ELSE {}

\* the marker error of the gradient, taken at the offsets given as markerMap
lossGradWrtMarkerError(markerMap, q, observed, K, markerCount) ==
  [i \in 1..Len(markerMap) |->
     IF mMarkerNames[i] \in DOMAIN observed
       THEN [c \in 1..MarkerDim |->
               mMarkerWeight * (K \div markerCount) * 2
                 * (markerWorldPosition(markerMap[i], q)[c]
                      - observed[mMarkerNames[i]][c])]
       ELSE Zero(MarkerDim)]

\* the vector computeGradient returns: getProblemSize() zeros, the parameter
\* blocks added in the order of the flags, the position terms of every frame
\* added at posesCursor.  markerMap is the fitter's marker map as handed to
\* the constructor (mMarkerMap), mk the offsets unflatten() has set (mMarkers).
computeGradientValue(f, sk, mk, P, V, A, o, obs, markerMap, garbage) ==
  LET K == lossScale(P, mk, obs)
      markerCount == markerCountOf(obs)
      regularization(weight, now, original) ==
        [j \in 1..Len(now) |->
           weight * 2 * (K \div NumScaleGroups) * (now[j] - original[j])]
      originalOffsets ==
        markerOffsetsAfterLookup(o.originalMarkerOffsets, mMarkerNames, garbage)
      markerError(k, t) ==
        lossGradWrtMarkerError(markerMap, P[k][t], obs[k][t], K, markerCount)
      frames == timesteps(P)
      gradSkeleton ==
        [groupMasses |->
           regularization(mRegularizeMasses, sk.groupMasses, o.originalGroupMasses),
         groupCOMs |->
           regularization(mRegularizeCOMs, sk.groupCOMs, o.originalGroupCOMs),
         groupInertias |->
           regularization(mRegularizeInertias, sk.groupInertias, o.originalGroupInertias),
         groupScales |->
           regularization(mRegularizeBodyScales, sk.groupScales, o.originalGroupScales)]
      gradMarkers ==
        [i \in 1..Len(mk) |-> [c \in 1..MarkerDim |->
           2 * markerRegularizationWeight(i) * (K \div Len(mk))
             * (mk[i][c] - originalOffsets[mMarkerNames[i]][c])
           + SumSeq([n \in 1..Len(frames) |->
                       markerError(frames[n][1], frames[n][2])[i][c]])]]
      gradPoses ==
        [k \in 1..Len(P) |-> [t \in 1..cols(P[k]) |-> [j \in 1..NumDofs |->
           SumSeq([i \in 1..Len(mk) |->
             SumSeq([c \in 1..MarkerDim |->
               IF dofOfAxis(c) = j THEN markerError(k, t)[i][c] ELSE 0])])
           + mRegularizePoses * 2 * (K \div totalTimestepsOf(P))
               * (P[k][t][j] - o.originalPoses[k][t][j])]]]
      head == flattenOf([f EXCEPT !.mIncludePoses = FALSE], gradSkeleton,
                        gradMarkers, P, V, A)
      writes == gradientWrites(Len(head), f, P, V, A)
      added(i) == {w \in writes : w.wrt = "POSITION" /\ i - w.at \in 1..NumDofs}
  IN  [i \in 1..getProblemSizeOf(f, P, A) |->
         IF i <= Len(head) THEN head[i]
         ELSE IF added(i) = {} THEN 0
         ELSE LET w == CHOOSE w \in added(i) : TRUE
              IN  gradPoses[w.trial][w.t][i - w.at]]

\* exitsBeforeGRF that also fires when there is one entry per trial
exitsBeforeGRFOrEqual == Len(probablyMissingGRF) <= Len(poseTrials)

\* the guard both evaluators run after unflatten(x)
exitsBeforeGRF == Len(probablyMissingGRF) < Len(poseTrials)

\* totalAccTimesteps: the acceleration columns of all trials, which both
\* evaluators divide the residual terms by
totalAccTimestepsOf(A) == SumSeq([k \in 1..Len(A) |-> cols(A[k])])

\* computeLoss(x) and computeGradient(x): unflatten, the guard (exit(1)), then
\* the loop over all timesteps.  result is what the loop leaves.
\* the iterates of the solver
SolverX == {vectorOf(getProblemSize, 1, 0), vectorOf(getProblemSize, 2, 1)}

\* hist.evaluated keeps the iterates of the solver evaluated so far
Evaluate(op, x, result) ==
  /\ phase \in {"config", "solve"}
  /\ unflattenProblem(x, 0)
  /\ IF exitsBeforeGRF
       THEN /\ mSkeleton' = skeletonAfterUnflatten(x, 0)
            /\ originals' = originals
            /\ phase' = "exited"
            /\ last' = [op |-> op, x |-> x, returned |-> FALSE,
                        before |-> kinematics(mSkeleton)]
       ELSE /\ mSkeleton' = result.sk
            /\ originals' = result.originals
            /\ phase' = "solve"
            /\ last' = [op |-> op, x |-> x, returned |-> TRUE,
                        terms |-> result.terms, before |-> kinematics(mSkeleton),
                        totalAccTimesteps |-> totalAccTimestepsOf(mAccs),
                        value |-> result.value, writes |-> result.writes,
                        posesCursor |-> result.posesCursor]
  /\ hist' = [hist EXCEPT !.evaluated = @ \cup ({x} \cap SolverX)]
  /\ UNCHANGED << fitterVars, trialTimesteps, poseTrials, probablyMissingGRF, initParams,
                  flags, mBest >>

\* computeLoss looks the regularization targets up with count() and at()
ComputeLoss(x) ==
  LET P == posesAfterUnflatten(x, 0)
      V == velsAfterUnflatten(x, 0)
      A == accsAfterUnflatten(x, 0)
      loop == lossLoop([sk |-> skeletonAfterUnflatten(x, 0), terms |-> {}],
                       timesteps(P), P, V, A, probablyMissingGRF)
  IN  Evaluate("computeLoss", x,
               IF exitsBeforeGRF THEN [sk |-> mSkeleton, terms |-> {}]
               ELSE [sk |-> loop.sk, terms |-> loop.terms, originals |-> originals,
                     writes |-> {}, posesCursor |-> 0,
                     value |-> computeLossValue(
                                 skeletonAfterUnflatten(x, 0),
                                 markersAfterUnflatten(x, 0), P, originals,
                                 given.markerObservationTrials)])

\* the regularization block of computeGradient, as far as it touches init
originalsAfterGradient(o, f, names, garbage) ==
  IF f.mIncludeMarkerOffsets
    THEN [o EXCEPT !.originalMarkerOffsets = markerOffsetsAfterLookup(@, names, garbage)]
    ELSE o

\* posesCursor after the regularization blocks of the parameters
posesCursorStart(f, sk, mk) ==
  Len(flattenOf([f EXCEPT !.mIncludePoses = FALSE], sk, mk, << >>, << >>, << >>))

ComputeGradient(x, garbage) ==
  LET P == posesAfterUnflatten(x, 0)
      V == velsAfterUnflatten(x, 0)
      A == accsAfterUnflatten(x, 0)
      start == posesCursorStart(flags, mSkeleton, mMarkers)
      cursors == gradientCursors(start, timesteps(P), flags, A, V)
      loop == gradientLoop([sk |-> skeletonAfterUnflatten(x, 0), terms |-> {}],
                           timesteps(P), flags, P, V, A, probablyMissingGRF)
  IN  Evaluate("computeGradient", x,
               IF exitsBeforeGRF THEN [sk |-> mSkeleton, terms |-> {}]
               ELSE [sk |-> loop.sk, terms |-> loop.terms,
                     originals |-> originalsAfterGradient(originals, flags,
                                                          mMarkerNames, garbage),
                     writes |-> gradientWrites(start, flags, P, V, A),
                     posesCursor |-> cursors[Len(cursors)],
                     value |-> computeGradientValue(
                                 flags, skeletonAfterUnflatten(x, 0),
                                 markersAfterUnflatten(x, 0), P, V, A, originals,
                                 given.markerObservationTrials, markersAtStart,
                                 garbage)])

\* computeLoss(x) as a number, for a vector that unflatten() does not skip
lossAt(x) ==
  computeLossValue(unflattenSkeleton(x, flags, mSkeleton, 0),
                   unflattenMarkers(x, flags, mMarkers, 0),
                   unflattenPoses(x, flags, mPoses, mAccs, 0),
                   originals, given.markerObservationTrials)

\* finiteDifferenceGradient(x): math::finiteDifference perturbs one entry at
\* a time by eps either way and divides the difference of the losses by
\* 2 * eps; with eps = 1 that is exact for this loss, which is quadratic in
\* every entry
finiteDifferenceGradient(x) ==
  [dof \in 1..Len(x) |->
     (lossAt([x EXCEPT ![dof] = @ + 1]) - lossAt([x EXCEPT ![dof] = @ - 1])) \div 2]

\* vectors handed to the evaluators
EvalX == {flatten, vectorOf(getProblemSize, 1, 0)}

\* init->probablyMissingGRF holds entries for none, some, all of the trials,
\* or one more (estimateFootGroundContacts appends one per force plate trial)
InitEval ==
  \E shape \in Shapes :
    /\ InitProblem(shape)
    /\ \E names \in MarkerKeySets : InitOriginals(shape, names)
    /\ \E n \in 0..(Len(shape) + 1) : probablyMissingGRF = missingOf(shape, n, 0)

NextEval ==
  \/ phase = "config" /\ SetIncludes
  \/ \E x \in EvalX : ComputeLoss(x)
  \/ \E x \in EvalX, garbage \in OobValues : ComputeGradient(x, garbage)

SpecEval == InitEval /\ [][NextEval]_vars

\* ------------------------------------------------- the solve (Ipopt::TNLP)
abs(v) == IF v < 0 THEN -v ELSE v

Min(a, b) == IF a < b THEN a ELSE b

\* the guard of intermediate_callback without its feasibility test
improvesAtAnyInfeasibility(obj_value, inf_pr, best) ==
  best.isInf \/ obj_value < best.value

\* obj_value < mBestObjectiveValue && abs(inf_pr) < 1.0, with inf_pr in tenths
improves(obj_value, inf_pr, best) ==
  /\ best.isInf \/ obj_value < best.value
  /\ abs(inf_pr) < FeasibilityTenths

intermediate_callback(best, iter, obj_value, inf_pr, lastX) ==
  IF improves(obj_value, inf_pr, best)
    THEN [isInf |-> FALSE, value |-> obj_value, iteration |-> iter, state |-> lastX]
    ELSE best

\* get_starting_point: the solver is handed flatten()
GetStartingPoint ==
  /\ phase = "config"
  /\ last' = [op |-> "get_starting_point", value |-> flatten]
  /\ UNCHANGED << fitterVars, originals, trialTimesteps, poseTrials, probablyMissingGRF, initParams,
                  flags, mSkeleton, mMarkers, mPoses, mVels, mAccs, mLastX,
                  mBest, phase, hist >>

\* one call per solver iteration, the first after the first evaluation; hist
\* keeps what the calls so far amount to.  The call carries no x: iterate is
\* the point the solver reports on, one of those it has evaluated, and
\* obj_value is the objective the solver holds for it.
IntermediateCallback(obj_value, inf_pr, iterate) ==
  /\ phase = "solve"
  /\ hist.calls < MaxIters
  /\ iterate \in hist.evaluated
  /\ mBest' = intermediate_callback(mBest, hist.calls, obj_value, inf_pr, mLastX)
  /\ hist' = [calls |-> hist.calls + 1,
              feasible |-> hist.feasible \/ abs(inf_pr) < FeasibilityTenths,
              min |-> IF abs(inf_pr) < FeasibilityTenths
                        THEN (IF hist.feasible THEN Min(hist.min, obj_value)
                              ELSE obj_value)
                        ELSE hist.min,
              evaluated |-> hist.evaluated]
  /\ last' = [op |-> "intermediate_callback", obj_value |-> obj_value,
              inf_pr |-> inf_pr, returned |-> TRUE, before |-> mBest,
              iterate |-> iterate]
  /\ UNCHANGED << fitterVars, originals, trialTimesteps, poseTrials, probablyMissingGRF, initParams,
                  flags, mSkeleton, mMarkers, mPoses, mVels, mAccs, mLastX,
                  phase >>

\* finalizeSource that takes the solver's final iterate
finalizeSourceSolverX(best, solverX) == solverX

\* Eigen::VectorXs x = mBestObjectiveValueState
finalizeSource(best, solverX) == best.state

\* init after the write-back of finalize_solution (one body per scale group)
writeBack(init, f, sk, mk) ==
  [groupScales |-> IF f.mIncludeBodyScales THEN sk.groupScales ELSE init.groupScales,
   bodyCom |-> IF f.mIncludeCOMs THEN sk.groupCOMs ELSE init.bodyCom,
   bodyInertia |-> IF f.mIncludeInertias THEN sk.groupInertias ELSE init.bodyInertia,
   bodyMasses |-> IF f.mIncludeMasses THEN sk.groupMasses ELSE init.bodyMasses,
   markerOffsets |-> IF f.mIncludeMarkerOffsets THEN mk ELSE init.markerOffsets]

\* finalize_solution.  Unflattening a vector shorter than the problem reads
\* past its end: a build with assertions aborts, one without reads oob.
FinalizeSolution(solverX, withAsserts, oob) ==
  /\ phase = "solve"
  /\ LET x == finalizeSource(mBest, solverX)
         readsPastEnd == ~unflattenSkips(x, mLastX) /\ Len(x) < getProblemSize
     IN  IF readsPastEnd /\ withAsserts
           THEN /\ phase' = "aborted"
                /\ last' = [op |-> "finalize_solution", solverX |-> solverX,
                            returned |-> FALSE]
                /\ UNCHANGED << mSkeleton, mMarkers, mPoses, mVels, mAccs,
                                mLastX, initParams, poseTrials >>
           ELSE /\ mSkeleton' = skeletonAfterUnflatten(x, oob)
                /\ unflattenProblem(x, oob)
                /\ initParams' = writeBack(initParams, flags,
                                           skeletonAfterUnflatten(x, oob),
                                           markersAfterUnflatten(x, oob))
                /\ poseTrials' = IF flags.mIncludePoses
                                   THEN posesAfterUnflatten(x, oob) ELSE poseTrials
                /\ phase' = "done"
                /\ last' = [op |-> "finalize_solution", solverX |-> solverX,
                            returned |-> TRUE, readPastEnd |-> readsPastEnd,
                            initBefore |-> initParams, posesBefore |-> poseTrials]
  /\ UNCHANGED << fitterVars, originals, trialTimesteps, probablyMissingGRF, flags, mBest, hist >>

\* objective values, infeasibilities (in tenths)
ObjValues == 0..MaxObj
InfPrValues == {-FeasibilityTenths, 1 - FeasibilityTenths, FeasibilityTenths}
\* runOptimization: a problem over init, whose contacts have been estimated.
\* Of the solver's evaluations, eval_f (computeLoss) stands for all three:
\* each starts with unflatten(x), which is what the tracker depends on.
SolveShapes ==
  {shape \in Shapes :
     Len(shape) = MaxTrials /\ \A k \in DOMAIN shape : shape[k] = MinFrames + 1}

Init ==
  \E shape \in SolveShapes :
    /\ InitProblem(shape)
    /\ InitOriginals(shape, 1..NumMarkers)
    /\ probablyMissingGRF = missingOf(shape, Len(shape), 0)

Next ==
  \/ phase = "config" /\ SetIncludes
  \/ GetStartingPoint
  \/ \E x \in SolverX : ComputeLoss(x)
  \/ \E obj_value \in ObjValues, inf_pr \in InfPrValues, iterate \in SolverX :
       IntermediateCallback(obj_value, inf_pr, iterate)
  \/ \E x \in SolverX, withAsserts \in BOOLEAN, oob \in OobValues :
       FinalizeSolution(x, withAsserts, oob)

Spec == Init /\ [][Next]_vars

\* ================================================= DynamicsFitter's stages
\* lengths are in tenths of a metre, wrenches in units whose smallest nonzero
\* squared norm is above the force-active threshold
cross(a, b) ==
  << a[2] * b[3] - a[3] * b[2], a[3] * b[1] - a[1] * b[3],
     a[1] * b[2] - a[2] * b[1] >>

\* math::dAdInvT(T, wrench) for a pure translation T: the moments taken about
\* the world origin, then the force
dAdInvT(translation, wrench) ==
  addVec(SubSeq(wrench, 1, 3), cross(translation, SubSeq(wrench, 4, 6)))
    \o SubSeq(wrench, 4, 6)

\* ---------------------------------------------------- what the caller hands in
\* the skeleton's tree of bodies: bodies 2j and 2j + 1 hang below body j
getChildBodyNodes(body) ==
  SelectSeq(<< 2 * body, 2 * body + 1 >>, LAMBDA child : child <= NumBodyNodes)

GrfNodeChoices == {<< 1 >>, << 1, 2 >>, << 2, 1 >>}

FitterShapes ==
  {shape \in Shapes :
     /\ shape[1] = MinFrames + 1
     /\ \A k \in DOMAIN shape : shape[k] <= MinFrames + 1}

\* the world position of every body at the pose of frame t of trial k
WorldSetups == [wx : 1..2, wy : 0..1]
worldOf(shape, w) ==
  [k \in 1..Len(shape) |->
     [t \in 1..shape[k] |->
        [j \in 1..NumBodyNodes |->
           << (j * w.wx + t) % GridSize,
              ((j + t * w.wy + k) % GridSize) - 1, 0 >>]]]

\* the footprint of plate p when it has one: a rectangle on the ground
cornersOf(p) ==
  << << 2 * (p - 1), 0, -1 >>, << 2 * (p - 1), 0, 1 >>,
     << 2 * (p - 1) + 1, 0, 1 >>, << 2 * (p - 1) + 1, 0, -1 >> >>

\* count plates per trial, the first cornered of them with a footprint; a
\* plate measures a force on every other frame, the plates of a trial on the
\* same frames or in turn
PlateSetups == {u \in [count : 1..MaxPlates, cornered : 0..1, g : 0..1] :
                  u.cornered <= u.count}
forcePlateOf(n, k, p, u) ==
  LET force(t) == p * ((t + k + u.g * p) % 2)
  IN  [corners |-> IF p <= u.cornered THEN cornersOf(p) ELSE << >>,
       worldOrigin |-> IF p <= u.cornered THEN cornersOf(p)[1] ELSE << 0, 0, 0 >>,
       centersOfPressure |-> [t \in 1..n |-> << (p * (1 + u.g) + t) % GridSize, 0, 0 >>],
       forces |-> [t \in 1..n |-> << 0, force(t), 0 >>],
       moments |-> [t \in 1..n |-> << 0, 0, force(t) >>]]
forcePlateTrialsOf(shape, u) ==
  [k \in 1..Len(shape) |->
     [p \in 1..u.count |-> forcePlateOf(shape[k], k, p, u)]]

\* the kinematic fit's joint centers and axes, one column per frame of all
\* trials together
kinematicColumns(shape, base) ==
  [c \in 1..SumSeq(shape) |-> [r \in 1..MarkerDim |-> base + c + r]]

\* the arguments of createInitialization; the kinematic fit holds the same
\* poses as one matrix over all trials
givenOf(shape, grfNodes, u) ==
  LET q == inputPosesOf(shape, timestepsOf(shape), 1)
  IN  [grfNodes |-> grfNodes,
       forcePlateTrials |-> forcePlateTrialsOf(shape, u),
       poseTrials |-> q,
       timesteps |-> timestepsOf(shape),
       frames |-> shape,
       kinematicInit |-> [poses |-> Concat(q),
                          jointCenters |-> kinematicColumns(shape, 60),
                          jointAxis |-> kinematicColumns(shape, 70)]]

noInit ==
  [groupScales |-> << >>, bodyCom |-> << >>, bodyInertia |-> << >>,
   bodyMasses |-> << >>, markerOffsets |-> << >>]

noOriginals ==
  [originalPoses |-> << >>, originalGroupMasses |-> << >>,
   originalGroupCOMs |-> << >>, originalGroupInertias |-> << >>,
   originalGroupScales |-> << >>, originalMarkerOffsets |-> << >>]

\* the inclusion flags a DynamicsFitProblem is constructed with
flagsAtConstruction ==
  [mIncludeMasses |-> TRUE, mIncludeCOMs |-> TRUE, mIncludeInertias |-> TRUE,
   mIncludeBodyScales |-> TRUE, mIncludePoses |-> TRUE,
   mIncludeMarkerOffsets |-> TRUE]

\* a DynamicsFitter over the skeleton, before any init exists
InitFitter ==
  \E shape \in FitterShapes, grfNodes \in GrfNodeChoices,
     u \in PlateSetups, w \in WorldSetups :
    /\ given = givenOf(shape, grfNodes, u)
    /\ world = worldOf(shape, w)
    /\ trialTimesteps = << >>
    /\ poseTrials = << >>
    /\ probablyMissingGRF = << >>
    /\ initParams = noInit
    /\ originals = noOriginals
    /\ forcePlateTrials = << >>
    /\ grfTrials = << >>
    /\ initJoints = [jointCenters |-> << >>, jointAxis |-> << >>]
    /\ contacts = noContacts
    /\ flags = flagsAtConstruction
    /\ mSkeleton = skeletonAtStart
    /\ mMarkers = markersAtStart
    /\ mPoses = << >>
    /\ mVels = << >>
    /\ mAccs = << >>
    /\ mLastX = << >>
    /\ mBest = noBest
    /\ phase = "start"
    /\ last = [op |-> "new"]
    /\ hist = [calls |-> 0, feasible |-> FALSE, min |-> 0, evaluated |-> {}]

\* ------------------------------------------------------ createInitialization
\* utils::AccelerationSmoother::smooth: a filter over the columns that keeps
\* their number; here every inner column is drawn towards its neighbours
smooth(q) ==
  [t \in 1..cols(q) |->
     IF t = 1 \/ t = cols(q) THEN q[t]
     ELSE [i \in 1..Len(q[t]) |->
             (q[t - 1][i] + 2 * q[t][i] + q[t + 1][i]) \div 4]]

\* dist < minDist, where a negative minDist stands for infinity; distances
\* are compared by their squares.  This variant also takes a tie.
isCloserOrTie(dist, minDist) == minDist < 0 \/ dist <= minDist

isCloser(dist, minDist) == minDist < 0 \/ dist < minDist

\* the loop over grfNodes: the index of the nearest one (0 when there is none)
RECURSIVE closestFootFrom(_, _, _, _, _)
closestFootFrom(i, cop, feet, minDist, closestFoot) ==
  IF i > Len(feet) THEN closestFoot
  ELSE LET dist == squaredNorm(subVec(feet[i], cop))
       IN  IF isCloser(dist, minDist)
             THEN closestFootFrom(i + 1, cop, feet, dist, i)
             ELSE closestFootFrom(i + 1, cop, feet, minDist, closestFoot)

worldWrenchOf(plate, t) ==
  dAdInvT(plate.centersOfPressure[t], plate.moments[t] \o plate.forces[t])

\* GRF.block<6, 1>(closestFoot * 6, t) += worldWrench
addToBlock(column, closestFoot, worldWrench) ==
  [r \in 1..Len(column) |->
     IF (closestFoot - 1) * 6 < r /\ r <= closestFoot * 6
       THEN column[r] + worldWrench[r - (closestFoot - 1) * 6]
       ELSE column[r]]

\* the loop over the plates of one frame, from plate i on
RECURSIVE grfColumnFrom(_, _, _, _, _)
grfColumnFrom(i, column, plates, t, feet) ==
  IF i > Len(plates) THEN column
  ELSE grfColumnFrom(
         i + 1,
         addToBlock(column,
                    closestFootFrom(1, plates[i].centersOfPressure[t], feet, -1, 0),
                    worldWrenchOf(plates[i], t)),
         plates, t, feet)

\* init->grfTrials: per trial and frame, 6 rows per GRF body
grfTrialsOf(P, plateTrials, grfNodes, positions) ==
  [k \in 1..Len(P) |->
     [t \in 1..cols(P[k]) |->
        grfColumnFrom(1, Zero(6 * Len(grfNodes)), plateTrials[k], t,
                      [b \in 1..Len(grfNodes) |-> positions[k][t][grfNodes[b]]])]]

\* the skeleton is left at the pose of the last frame visited
skeletonAtLastFrame(sk, P) ==
  IF Len(P) > 0 /\ cols(P[Len(P)]) > 0
    THEN [sk EXCEPT !.positions = P[Len(P)][cols(P[Len(P)])]]
    ELSE sk

\* the overload that takes poses per trial fills no joint data; the one that
\* takes a kinematic fit splits its poses and copies its joint columns
CreateInitialization(overload) ==
  /\ phase = "start"
  /\ LET raw == IF overload = "kinematicInit"
                  THEN splitColumns(given.frames, given.kinematicInit.poses)
                  ELSE given.poseTrials
         P == [k \in 1..Len(raw) |-> smooth(raw[k])]
     IN  /\ forcePlateTrials' = given.forcePlateTrials
         /\ initParams' = createInitialization(mSkeleton, mMarkers)
         /\ poseTrials' = P
         /\ trialTimesteps' = given.timesteps
         /\ grfTrials' = grfTrialsOf(P, given.forcePlateTrials, given.grfNodes, world)
         /\ originals' = createOriginals(raw, mSkeleton, mMarkers, 1..NumMarkers)
         /\ initJoints' =
              IF overload = "kinematicInit"
                THEN [jointCenters |->
                        copyJointColumns(P, given.kinematicInit.jointCenters),
                      jointAxis |->
                        copyJointColumns(P, given.kinematicInit.jointAxis)]
                ELSE initJoints
         /\ mSkeleton' = skeletonAtLastFrame(mSkeleton, P)
  /\ phase' = "created"
  /\ last' = [op |-> "createInitialization", overload |-> overload]
  /\ UNCHANGED << given, world, contacts, probablyMissingGRF, flags, mMarkers,
                  mPoses, mVels, mAccs, mLastX, mBest, hist >>

\* ------------------------------------------------ estimateFootGroundContacts
Range(f) == {f[i] : i \in DOMAIN f}

\* the walk that visits the children of a body before its siblings
RECURSIVE extendedContactBodiesDepthFirst(_, _, _)
extendedContactBodiesDepthFirst(queue, visited, grfNodes) ==
  IF queue = << >> THEN visited
  ELSE LET cursor == Head(queue)
           notGrf(child) == child \notin Range(grfNodes)
       IN  extendedContactBodiesDepthFirst(
             SelectSeq(getChildBodyNodes(cursor), notGrf) \o Tail(queue),
             Append(visited, cursor), grfNodes)

\* the breadth-first walk from a GRF body over the children that are not GRF
\* bodies themselves
RECURSIVE extendedContactBodies(_, _, _)
extendedContactBodies(queue, visited, grfNodes) ==
  IF queue = << >> THEN visited
  ELSE LET cursor == Head(queue)
           notGrf(child) == child \notin Range(grfNodes)
       IN  extendedContactBodies(
             Tail(queue) \o SelectSeq(getChildBodyNodes(cursor), notGrf),
             Append(visited, cursor), grfNodes)

contactBodiesOf(grfNodes) ==
  [i \in 1..Len(grfNodes) |->
     extendedContactBodies(<< grfNodes[i] >>, << >>, grfNodes)]

\* all corners of the plates of a trial, in the order the loops visit them
allCorners(plates) == Concat([p \in 1..Len(plates) |-> plates[p].corners])

\* all centers of pressure of a trial, over its frames and plates
allCentersOfPressure(plates, n) ==
  Concat([t \in 1..n |-> [p \in 1..Len(plates) |-> plates[p].centersOfPressure[t]]])

MinOf(S) == CHOOSE v \in S : \A w \in S : v <= w
MaxOf(S) == CHOOSE v \in S : \A w \in S : v >= w

\* 1.1, 1.2: the height of the first corner or, without corners, the lowest
\* center of pressure (every trial has a plate and a frame)
groundHeightOf(plates, n) ==
  IF allCorners(plates) # << >> THEN allCorners(plates)[1][2]
  ELSE MinOf({cop[2] : cop \in Range(allCentersOfPressure(plates, n))})

\* flatGround starts true and is cleared by a later corner whose height is
\* within 1e-8 of the ground height
flatGroundOf(plates) ==
  LET corners == allCorners(plates)
  IN  ~\E i \in 2..Len(corners) : corners[1][2] - corners[i][2] = 0

\* squaredNorm() > 1e-3 in this model's units
isForceActive(wrench) == squaredNorm(wrench) > 0

\* init->grfTrials[trial].col(t).segment<6>(b * 6) is force-active
footActive(k, t, b) ==
  isForceActive(SubSeq(grfTrials[k][t], 6 * (b - 1) + 1, 6 * b))

\* worldPos(1) - groundHeight of the contact bodies of GRF body b
contactDists(bodies, k, t, b, groundHeight) ==
  [c \in 1..Len(bodies[b]) |-> world[k][t][bodies[b][c]][2] - groundHeight]

\* the contact body closest to the ground, the first of equally close ones
RECURSIVE closestBodyFrom(_, _, _)
closestBodyFrom(c, dists, closestBody) ==
  IF c > Len(dists) THEN closestBody
  ELSE IF closestBody = 0 \/ dists[c] < dists[closestBody]
         THEN closestBodyFrom(c + 1, dists, c)
         ELSE closestBodyFrom(c + 1, dists, closestBody)

\* 2.0: one pass of the loop that grows the contact spheres
growSpheres(sizes, bodies, k, t, b, groundHeight) ==
  IF footActive(k, t, b)
    THEN LET dists == contactDists(bodies, k, t, b, groundHeight)
             closestBody == closestBodyFrom(1, dists, 0)
         IN  IF dists[closestBody] > sizes[b][closestBody]
               THEN [sizes EXCEPT ![b][closestBody] = dists[closestBody]]
               ELSE sizes
    ELSE sizes

RECURSIVE grfContactSphereSizes(_, _, _, _, _)
grfContactSphereSizes(sizes, steps, bodies, k, groundHeight) ==
  IF steps = << >> THEN sizes
  ELSE grfContactSphereSizes(
         growSpheres(sizes, bodies, k, Head(steps)[1], Head(steps)[2], groundHeight),
         Tail(steps), bodies, k, groundHeight)

\* 3: the default plate, when a plate of the trial has no corners: the box
\* around all centers of pressure, padded by 10 cm
defaultCornersOf(plates, n, groundHeight) ==
  IF \E p \in DOMAIN plates : Len(plates[p].corners) = 0
    THEN LET cops == Range(allCentersOfPressure(plates, n))
             minX == MinOf({cop[1] : cop \in cops}) - Padding
             maxX == MaxOf({cop[1] : cop \in cops}) + Padding
             minZ == MinOf({cop[3] : cop \in cops}) - Padding
             maxZ == MaxOf({cop[3] : cop \in cops}) + Padding
         IN  << << minX, groundHeight, minZ >>, << minX, groundHeight, maxZ >>,
                << maxX, groundHeight, maxZ >>, << maxX, groundHeight, minZ >> >>
    ELSE << >>

\* math::convex2DShapeContains over the X and Z axes, for the rectangles this
\* model's plates are
convex2DShapeContains(point, corners) ==
  /\ \E a, b \in Range(corners) : a[1] <= point[1] /\ point[1] <= b[1]
  /\ \E a, b \in Range(corners) : a[3] <= point[3] /\ point[3] <= b[3]

\* whether a point is over a plate of the trial or over its default plate
inAnyPlate(point, plates, defaultCorners) ==
  \/ \E p \in DOMAIN plates :
       Len(plates[p].corners) > 0 /\ convex2DShapeContains(point, plates[p].corners)
  \/ Len(defaultCorners) > 0 /\ convex2DShapeContains(point, defaultCorners)

\* 4.2: some contact sphere of GRF body b reaches the ground
sphereInContact(sizes, bodies, k, t, b, groundHeight) ==
  \E c \in 1..Len(bodies[b]) :
    contactDists(bodies, k, t, b, groundHeight)[c] < sizes[b][c]

\* 4.3.1: some contact body of GRF body b is over a plate
anyInPlate(bodies, plates, defaultCorners, k, t, b) ==
  \E c \in 1..Len(bodies[b]) :
    inAnyPlate(world[k][t][bodies[b][c]], plates, defaultCorners)

\* 4.3: contactIsSus
contactIsSus(sizes, bodies, plates, defaultCorners, k, t, b, groundHeight) ==
  /\ sphereInContact(sizes, bodies, k, t, b, groundHeight)
  /\ ~footActive(k, t, b)
  /\ ~anyInPlate(bodies, plates, defaultCorners, k, t, b)

\* what one pass of the loop over the trials appends for trial k; bodies is
\* init->contactBodies as it stands after step 0
trialContacts(bodies, k) ==
  LET plates == forcePlateTrials[k]
      n == cols(poseTrials[k])
      grfBodies == 1..Len(given.grfNodes)
      groundHeight == groundHeightOf(plates, n)
      steps == Concat([t \in 1..n |-> [b \in 1..Len(given.grfNodes) |-> << t, b >>]])
      sizes == grfContactSphereSizes(
                 [b \in 1..Len(bodies) |-> [c \in 1..Len(bodies[b]) |-> 0]],
                 steps, bodies, k, groundHeight)
      defaultCorners == defaultCornersOf(plates, n, groundHeight)
      sus(t, b) == contactIsSus(sizes, bodies, plates, defaultCorners, k, t, b,
                                groundHeight)
  IN  [grfBodyContactSphereRadius |-> sizes,
       groundHeight |-> groundHeight,
       flatGround |-> flatGroundOf(plates),
       defaultForcePlateCorners |-> defaultCorners,
       grfBodyForceActive |->
         [t \in 1..n |-> [b \in grfBodies |-> footActive(k, t, b)]],
       grfBodySphereInContact |->
         [t \in 1..n |-> [b \in grfBodies |->
            sphereInContact(sizes, bodies, k, t, b, groundHeight)]],
       grfBodyOffForcePlate |-> [t \in 1..n |-> [b \in grfBodies |-> sus(t, b)]],
       probablyMissingGRF |-> [t \in 1..n |-> \E b \in grfBodies : sus(t, b)]]

\* every call appends: the contact bodies of every GRF body, then one entry
\* per force plate trial to each per-trial list, probablyMissingGRF included.
\* The skeleton is left at the pose of the last frame.
EstimateFootGroundContacts ==
  /\ phase = "created"
  /\ hist.calls < MaxStageCalls
  /\ LET bodies == contacts.contactBodies \o contactBodiesOf(given.grfNodes)
         trials == [k \in 1..Len(forcePlateTrials) |-> trialContacts(bodies, k)]
         appended(field) == [k \in 1..Len(trials) |-> trials[k][field]]
     IN  /\ contacts' =
              [n \in DOMAIN contacts |->
                 IF n = "contactBodies" THEN bodies
                 ELSE contacts[n] \o appended(n)]
         /\ probablyMissingGRF' = probablyMissingGRF \o appended("probablyMissingGRF")
  /\ mSkeleton' = skeletonAtLastFrame(mSkeleton, poseTrials)
  /\ hist' = [hist EXCEPT !.calls = @ + 1]
  /\ last' = [op |-> "estimateFootGroundContacts",
              entriesBefore |-> Len(probablyMissingGRF)]
  /\ UNCHANGED << given, world, forcePlateTrials, grfTrials, initJoints,
                  originals, trialTimesteps, poseTrials, initParams, flags,
                  mMarkers, mPoses, mVels, mAccs, mLastX, mBest, phase >>

\* ------------------------------------------------------ diagnostic queries
\* the fields of init
initFields ==
  << trialTimesteps, poseTrials, probablyMissingGRF, initParams, originals,
     forcePlateTrials, grfTrials, initJoints, contacts >>

\* what the diagnostics save and put back, as far as they do
perturbable(sk) ==
  [positions |-> sk.positions, groupMasses |-> sk.groupMasses,
   groupScales |-> sk.groupScales]

\* comPositions that does not put the link masses back
skeletonAfterComPositionsKeepingMasses(sk, masses, poses) ==
  LET originalPoses == sk.positions
      atLastFrame == skeletonAtLastFrame([sk EXCEPT !.groupMasses = masses],
                                         << poses >>)
  IN  [atLastFrame EXCEPT !.positions = originalPoses]

\* comPositions: the link masses of init are set, every frame's pose is set
\* in turn, then masses and pose are put back
skeletonAfterComPositions(sk, masses, poses) ==
  LET originalMasses == sk.groupMasses
      originalPoses == sk.positions
      atLastFrame == skeletonAtLastFrame([sk EXCEPT !.groupMasses = masses],
                                         << poses >>)
  IN  [atLastFrame EXCEPT !.groupMasses = originalMasses,
                          !.positions = originalPoses]

\* computeAverageMarkerRMSE: the group scales of init are set, every frame's
\* pose of every trial is set in turn, then pose and scales are put back
skeletonAfterMarkerRMSE(sk, scales, P) ==
  LET originalPoses == sk.positions
      originalScales == sk.groupScales
      atLastFrame == skeletonAtLastFrame([sk EXCEPT !.groupScales = scales], P)
  IN  [atLastFrame EXCEPT !.positions = originalPoses,
                          !.groupScales = originalScales]

\* the frames computeAverageResidualForce evaluates: all but the last two of
\* every trial, the flagged ones left out
residualFrames(P, missing) ==
  SelectSeq(Concat([k \in 1..Len(P) |->
                      [t \in 1..(cols(P[k]) - 2) |-> << k, t >>]]),
            LAMBDA kt : ~missing[kt[1]][kt[2]])

RECURSIVE skeletonAfterResiduals(_, _, _, _)
skeletonAfterResiduals(sk, frames, P, dts) ==
  IF frames = << >> THEN sk
  ELSE LET k == Head(frames)[1]
           t == Head(frames)[2]
           q == P[k][t]
           dq == ctorVels(P[k], dts[k])[t]
           ddq == ctorAccs(P[k], dts[k])[t]
       IN  skeletonAfterResiduals(calculateResidual(sk, q, dq, ddq),
                                  Tail(frames), P, dts)

\* computeAverageResidualForce: the group scales of init are set, a helper
\* evaluates the residual at every unflagged frame, then pose and scales are
\* put back
skeletonAfterResidualForce(sk, scales, P, dts, missing) ==
  LET originalPoses == sk.positions
      originalScales == sk.groupScales
      evaluated == skeletonAfterResiduals([sk EXCEPT !.groupScales = scales],
                                          residualFrames(P, missing), P, dts)
  IN  [evaluated EXCEPT !.positions = originalPoses,
                        !.groupScales = originalScales]

DiagnosticOps ==
  {"computeAverageMarkerRMSE", "computeAverageResidualForce",
   "computeAverageRealForce", "comPositions", "comAccelerations",
   "impliedCOMForces", "measuredGRFForces"}

\* a diagnostic query that returns; after is the skeleton it leaves
Diagnostic(op, after) ==
  /\ phase \in {"created", "optimized"}
  /\ hist.calls < MaxStageCalls
  /\ mSkeleton' = after
  /\ hist' = [hist EXCEPT !.calls = @ + 1]
  /\ last' = [op |-> op, returned |-> TRUE, before |-> perturbable(mSkeleton),
              initBefore |-> initFields]
  /\ UNCHANGED << fitterVars, originals, trialTimesteps, poseTrials,
                  probablyMissingGRF, initParams, flags, mMarkers, mPoses,
                  mVels, mAccs, mLastX, mBest, phase >>

ComputeAverageMarkerRMSE ==
  Diagnostic("computeAverageMarkerRMSE",
             skeletonAfterMarkerRMSE(mSkeleton, initParams.groupScales, poseTrials))

\* reads init->probablyMissingGRF[trial][t]: called once the contacts of every
\* trial have been estimated
ComputeAverageResidualForce ==
  /\ Len(probablyMissingGRF) >= Len(poseTrials)
  /\ Diagnostic("computeAverageResidualForce",
                skeletonAfterResidualForce(mSkeleton, initParams.groupScales,
                                           poseTrials, trialTimesteps,
                                           probablyMissingGRF))

ComputeAverageRealForce == Diagnostic("computeAverageRealForce", mSkeleton)

\* comPositions, and comAccelerations and impliedCOMForces, which call it
ComPositions(op, trial) ==
  Diagnostic(op, skeletonAfterComPositions(mSkeleton, initParams.bodyMasses,
                                           poseTrials[trial]))

\* sums the plates' forces of the trial; the skeleton is not used
MeasuredGRFForces(trial) ==
  /\ trial \in 1..Len(forcePlateTrials)
  /\ Diagnostic("measuredGRFForces", mSkeleton)

\* comPositions on a trial that init does not have: exit(1)
ComPositionsOutOfBounds ==
  /\ phase \in {"created", "optimized"}
  /\ phase' = "exited"
  /\ last' = [op |-> "comPositions", returned |-> FALSE]
  /\ UNCHANGED << fitterVars, originals, trialTimesteps, poseTrials,
                  probablyMissingGRF, initParams, flags, mSkeleton, mMarkers,
                  mPoses, mVels, mAccs, mLastX, mBest, hist >>

\* ------------------------------------------------------- warm-start stages
\* what impliedTotalMass / bodyMasses.sum() may come to
MassRatios == {2}

\* scaleLinkMassesFromGravity: measuredGRFForces and comAccelerations of every
\* trial give the ratio, a number that depends on the measured data; only
\* init->bodyMasses is scaled by it.  Every comAccelerations call puts the
\* skeleton back, so the last one decides what the skeleton is left with.
ScaleLinkMassesFromGravity(ratio) ==
  /\ phase = "created"
  /\ hist.calls < MaxStageCalls
  /\ Len(poseTrials) > 0
  /\ initParams' = [initParams EXCEPT
                      !.bodyMasses = [i \in DOMAIN @ |-> @[i] * ratio]]
  /\ mSkeleton' = skeletonAfterComPositions(mSkeleton, initParams.bodyMasses,
                                            poseTrials[Len(poseTrials)])
  /\ hist' = [hist EXCEPT !.calls = @ + 1]
  /\ last' = [op |-> "scaleLinkMassesFromGravity", ratio |-> ratio,
              massesBefore |-> initParams.bodyMasses]
  /\ UNCHANGED << fitterVars, originals, trialTimesteps, poseTrials,
                  probablyMissingGRF, flags, mMarkers, mPoses, mVels, mAccs,
                  mLastX, mBest, phase >>

\* the clamp that only catches negative masses
clampMassNegative(mass) == IF mass < 0 THEN MassFloor ELSE mass

\* if (init->bodyMasses(i) < 0.01) init->bodyMasses(i) = 0.01
clampMass(mass) == IF mass < MassFloor THEN MassFloor ELSE mass

\* what the least-squares solve may return for a mass: negative, zero, below
\* the floor, the floor, above it
SolvedMasses == {-1, 0, MassFloor - 1, MassFloor, MassFloor + 1}

\* totalTimesteps: cols - 2 of every trial that has a column
massTotalTimesteps(P) ==
  SumSeq([k \in 1..Len(P) |-> IF cols(P[k]) > 0 THEN cols(P[k]) - 2 ELSE 0])

\* the cursor when the loop reaches trial k: cols - 2 of the earlier trials
\* that were not skipped
massCursor(P, k) ==
  SumSeq([j \in 1..(k - 1) |-> IF cols(P[j]) <= 2 THEN 0 ELSE cols(P[j]) - 2])

\* the timesteps (cursor + t) whose three rows of A and g the loop writes
massTimestepsWritten(P) ==
  Concat([k \in 1..Len(P) |->
            IF cols(P[k]) <= 2 THEN << >>
            ELSE [t \in 1..(cols(P[k]) - 2) |-> massCursor(P, k) + t - 1]])

\* A and g have totalTimesteps * 3 + getNumBodyNodes() rows; a write of rows
\* 3 * timestep .. 3 * timestep + 2, or the regularization block that starts
\* at row totalTimesteps * 3, may fall outside them
massWritesOutside(P) ==
  LET rows == massTotalTimesteps(P) * 3 + NumBodyNodes
  IN  \/ rows < 0
      \/ massTotalTimesteps(P) < 0
      \/ \E i \in DOMAIN massTimestepsWritten(P) :
           massTimestepsWritten(P)[i] * 3 + 3 > rows

\* estimateLinkMassesFromAcceleration: the matrices, the solve (a finite
\* vector), the clamp; the pose it sets per frame is put back at the end.  A
\* write outside the matrices stops a build with assertions and is undefined
\* without them: the solve then returns whatever it returns.
EstimateLinkMassesFromAcceleration(solved, withAsserts) ==
  /\ phase = "created"
  /\ hist.calls < MaxStageCalls
  /\ hist' = [hist EXCEPT !.calls = @ + 1]
  /\ IF massWritesOutside(poseTrials) /\ withAsserts
       THEN /\ phase' = "aborted"
            /\ last' = [op |-> "estimateLinkMassesFromAcceleration",
                        returned |-> FALSE,
                        totalTimesteps |-> massTotalTimesteps(poseTrials),
                        written |-> massTimestepsWritten(poseTrials)]
            /\ UNCHANGED << initParams, mSkeleton >>
       ELSE /\ phase' = phase
            /\ initParams' =
                 [initParams EXCEPT
                    !.bodyMasses = [i \in DOMAIN @ |-> clampMass(solved[i])]]
            /\ mSkeleton' = [skeletonAtLastFrame(mSkeleton, poseTrials)
                               EXCEPT !.positions = mSkeleton.positions]
            /\ last' = [op |-> "estimateLinkMassesFromAcceleration",
                        returned |-> TRUE, solved |-> solved,
                        massesBefore |-> initParams.bodyMasses,
                        totalTimesteps |-> massTotalTimesteps(poseTrials),
                        written |-> massTimestepsWritten(poseTrials)]
  /\ UNCHANGED << fitterVars, originals, trialTimesteps, poseTrials,
                  probablyMissingGRF, flags, mMarkers, mPoses, mVels, mAccs,
                  mLastX, mBest >>

\* an init whose trials have any number of frames, short ones included, as a
\* caller may hand it to the stage
RowShapes == UNION {[1..n -> 0..(MinFrames + 1)] : n \in 1..MaxTrials}

InitRows ==
  \E shape \in RowShapes, count \in 1..MaxPlates :
    /\ given = [frames |-> shape]
    /\ world = << >>
    /\ trialTimesteps = timestepsOf(shape)
    /\ poseTrials = inputPosesOf(shape, timestepsOf(shape), 1)
    /\ probablyMissingGRF = << >>
    /\ initParams = createInitialization(skeletonAtStart, markersAtStart)
    /\ originals = noOriginals
    /\ forcePlateTrials =
         forcePlateTrialsOf(shape, [count |-> count, cornered |-> 0, g |-> 0])
    /\ grfTrials = << >>
    /\ initJoints = [jointCenters |-> << >>, jointAxis |-> << >>]
    /\ contacts = noContacts
    /\ flags = flagsAtConstruction
    /\ mSkeleton = skeletonAtStart
    /\ mMarkers = markersAtStart
    /\ mPoses = << >>
    /\ mVels = << >>
    /\ mAccs = << >>
    /\ mLastX = << >>
    /\ mBest = noBest
    /\ phase = "created"
    /\ last = [op |-> "new"]
    /\ hist = [calls |-> 0, feasible |-> FALSE, min |-> 0, evaluated |-> {}]

NextRows ==
  \E solved \in [1..massDim -> SolvedMasses], withAsserts \in BOOLEAN :
    EstimateLinkMassesFromAcceleration(solved, withAsserts)

SpecRows == InitRows /\ [][NextRows]_vars

\* ----------------------------------------------------------- runOptimization
\* the flag combinations the runs are made with
RunFlags ==
  {f \in AllFlags :
     /\ f.mIncludeCOMs /\ f.mIncludeInertias /\ f.mIncludeBodyScales
     /\ f.mIncludeMarkerOffsets
     /\ f.mIncludePoses = f.mIncludeMasses}

\* the iterate the solve recorded as its best: the starting point, or one
\* that is off it by step in every entry
BestSteps == {0, 1}

\* runOptimization: a DynamicsFitProblem over init, the fitter's skeleton and
\* its marker map; the setters; the solve, which starts from flatten(),
\* exits in its first evaluation when contacts were not estimated for every
\* trial, and otherwise ends in finalize_solution on the best iterate; the
\* evaluations leave the skeleton at the pose of the last frame
RunOptimization(f, step) ==
  /\ phase = "created"
  /\ hist.calls < MaxStageCalls
  /\ LET P == poseTrials
         V == [k \in 1..Len(P) |-> ctorVels(P[k], trialTimesteps[k])]
         A == [k \in 1..Len(P) |-> ctorAccs(P[k], trialTimesteps[k])]
         start == flattenOf(f, mSkeleton, mMarkers, P, V, A)
         x == [i \in 1..Len(start) |-> start[i] + step]
         sk == unflattenSkeleton(x, f, mSkeleton, 0)
         mk == unflattenMarkers(x, f, mMarkers, 0)
     IN  /\ flags' = f
         /\ IF Len(probablyMissingGRF) < Len(poseTrials)
              THEN /\ phase' = "exited"
                   /\ mPoses' = P
                   /\ mVels' = V
                   /\ mAccs' = A
                   /\ mLastX' = start
                   /\ last' = [op |-> "runOptimization", returned |-> FALSE,
                               startingPoint |-> start,
                               initBefore |-> initParams]
                   /\ UNCHANGED << mSkeleton, mMarkers, mBest, initParams,
                                   poseTrials >>
              ELSE /\ phase' = "optimized"
                   /\ mPoses' = unflattenPoses(x, f, P, A, 0)
                   /\ mVels' = unflattenVels(x, f, V, A, 0)
                   /\ mAccs' = unflattenAccs(x, f, A, 0)
                   /\ mLastX' = x
                   /\ mMarkers' = mk
                   /\ mSkeleton' = skeletonAtLastFrame(sk, unflattenPoses(x, f, P, A, 0))
                   /\ mBest' = [isInf |-> FALSE, value |-> 0, iteration |-> step,
                                state |-> x]
                   /\ initParams' = writeBack(initParams, f, sk, mk)
                   /\ poseTrials' = IF f.mIncludePoses
                                      THEN unflattenPoses(x, f, P, A, 0)
                                      ELSE poseTrials
                   /\ last' = [op |-> "runOptimization", returned |-> TRUE,
                               startingPoint |-> start,
                               initBefore |-> initParams]
  /\ hist' = [hist EXCEPT !.calls = @ + 1]
  /\ UNCHANGED << fitterVars, originals, trialTimesteps, probablyMissingGRF >>

NextFitter ==
  \/ \E overload \in {"markerMap", "kinematicInit"} : CreateInitialization(overload)
  \/ EstimateFootGroundContacts
  \/ \E ratio \in MassRatios : ScaleLinkMassesFromGravity(ratio)
  \/ \E solved \in [1..massDim -> SolvedMasses], withAsserts \in BOOLEAN :
       EstimateLinkMassesFromAcceleration(solved, withAsserts)
  \/ \E f \in RunFlags, step \in BestSteps : RunOptimization(f, step)
  \/ ComputeAverageMarkerRMSE
  \/ ComputeAverageResidualForce
  \/ ComputeAverageRealForce
  \/ \E op \in {"comPositions", "comAccelerations", "impliedCOMForces"},
        trial \in 1..Len(poseTrials) : ComPositions(op, trial)
  \/ \E trial \in 1..Len(poseTrials) : MeasuredGRFForces(trial)
  \/ ComPositionsOutOfBounds

SpecFitter == InitFitter /\ [][NextFitter]_vars

\* ================================================================ claims
AllIncluded == \A n \in DOMAIN flags : flags[n]

\* C1: for every combination of the inclusion flags, flatten() has exactly
\* getProblemSize() entries, unflatten(x) followed by flatten() gives x back,
\* and unflattening what flatten() returns changes nothing.
C1_RoundTrip ==
  /\ Len(flatten) = getProblemSize
  /\ last.op = "unflatten" => flatten = last.x
  /\ unflattenSkeleton(flatten, flags, mSkeleton, 0) = mSkeleton
  /\ unflattenMarkers(flatten, flags, mMarkers, 0) = mMarkers
  /\ unflattenPoses(flatten, flags, mPoses, mAccs, 0) = mPoses
  /\ unflattenVels(flatten, flags, mVels, mAccs, 0) = mVels
  /\ unflattenAccs(flatten, flags, mAccs, 0) = mAccs

C1_Witness ==
  /\ last.op = "unflatten"
  /\ AllIncluded
  /\ Len(mPoses) = MaxTrials
  /\ \E k \in 1..Len(mAccs) : cols(mAccs[k]) >= 2
  /\ \E i, j \in 1..Len(last.x) : last.x[i] # last.x[j]
  /\ flatten = last.x

\* the rows the claimed constraint set has: per trial, two per dof and
\* acceleration timestep, and one per dof for the trailing velocity
claimedRows(A) == SumSeq([k \in 1..Len(A) |-> 2 * NumDofs * cols(A[k]) + NumDofs])

\* C3: with poses, getConstraintSize() is the number of constraint rows (per
\* trial 2*dofs per acceleration timestep plus dofs), which is the number of
\* entries computeConstraints writes; every triple of the sparse Jacobian lies
\* inside getConstraintSize() x getProblemSize(), and the dense Jacobian is the
\* materialization of the triples.  Without poses there are 0 constraints.
C3_ConstraintSize ==
  /\ flags.mIncludePoses =>
       /\ getConstraintSize = claimedRows(mAccs)
       /\ getConstraintSize = Len(constraintWrites(mPoses, mVels, mAccs, trialTimesteps))
       /\ triplesFit(flags, mPoses, mAccs, trialTimesteps)
  /\ ~flags.mIncludePoses => getConstraintSize = 0
  /\ last.op = "computeConstraintsJacobian" =>
       /\ last.returned
       /\ LET sparse == computeSparseConstraintsJacobian
          IN  /\ \A n \in 1..Len(sparse) :
                   /\ << sparse[n][1], sparse[n][2] >> \in DOMAIN last.value
                   /\ last.value[<< sparse[n][1], sparse[n][2] >>] = sparse[n][3]
              /\ \A rc \in DOMAIN last.value :
                   (\A n \in 1..Len(sparse) : << sparse[n][1], sparse[n][2] >> # rc)
                     => last.value[rc] = 0

\* what computeConstraints writes for the vector x, in the current layout
writesAt(x) ==
  constraintWrites(unflattenPoses(x, flags, mPoses, mAccs, 0),
                   unflattenVels(x, flags, mVels, mAccs, 0),
                   unflattenAccs(x, flags, mAccs, 0), trialTimesteps)

\* the trial whose constraints hold row r (0-based)
trialOfRow(r) ==
  CHOOSE k \in 1..Len(mAccs) :
    /\ rowCursorTrial(mAccs, k) <= r
    /\ r < rowCursorTrial(mAccs, k) + 2 * NumDofs * cols(mAccs[k]) + NumDofs

\* C4: every row of computeSparseConstraintsJacobian() has exactly three
\* triples, with values +1, -1 and the trial's dt, and the triples are the
\* partial derivatives of the row's constraint with respect to the entries
\* of x, in every layout and for every trial.
C4_SparseJacobian ==
  last.op = "computeSparseConstraintsJacobian" =>
    LET sparse == last.value
        x0 == flatten
        w0 == writesAt(x0)
        at(r, c) == {n \in 1..Len(sparse) : sparse[n][1] = r /\ sparse[n][2] = c}
        inRow(r) == {n \in 1..Len(sparse) : sparse[n][1] = r}
    IN  IF flags.mIncludePoses
          THEN /\ \A n \in 1..Len(sparse) : sparse[n][1] \in 0..(Len(w0) - 1)
               /\ \A r \in 0..(Len(w0) - 1) :
                    /\ Cardinality(inRow(r)) = 3
                    /\ \E a, b, c \in inRow(r) :
                         /\ a # b /\ b # c /\ a # c
                         /\ sparse[a][3] = 1
                         /\ sparse[b][3] = -1
                         /\ sparse[c][3] = trialTimesteps[trialOfRow(r)]
               /\ \A c \in 0..(Len(x0) - 1) :
                    LET w1 == writesAt([x0 EXCEPT ![c + 1] = @ + 1])
                    IN  \A r \in 0..(Len(w0) - 1) :
                          w1[r + 1] - w0[r + 1]
                            = (IF at(r, c) = {} THEN 0
                               ELSE sparse[CHOOSE n \in at(r, c) : TRUE][3])
                          /\ Cardinality(at(r, c)) <= 1
          ELSE sparse = << >>

C4_Witness ==
  /\ last.op = "computeSparseConstraintsJacobian"
  /\ AllIncluded
  /\ Len(mAccs) = MaxTrials
  /\ \E k \in 1..Len(mAccs) : cols(mAccs[k]) >= 2
  /\ Len(last.value) = 3 * claimedRows(mAccs)

\* the trajectory satisfies v*dt = q(t+1) - q(t) and a*dt = v(t+1) - v(t) at
\* every stored timestep of every trial
isConsistent(P, V, A, dts) ==
  \A k \in 1..Len(P) : \A i \in 1..NumDofs :
    /\ \A t \in 1..cols(V[k]) : V[k][t][i] * dts[k] = P[k][t + 1][i] - P[k][t][i]
    /\ \A t \in 1..cols(A[k]) : A[k][t][i] * dts[k] = V[k][t + 1][i] - V[k][t][i]

\* the constraint row (1-based) of the velocity, resp. acceleration, of trial
\* k, column t, dof i
velocityRow(A, k, t, i) ==
  SumSeq([j \in 1..(k - 1) |-> 2 * NumDofs * cols(A[j]) + NumDofs])
    + 2 * NumDofs * (t - 1) + i
accelerationRow(A, k, t, i) ==
  SumSeq([j \in 1..(k - 1) |-> 2 * NumDofs * cols(A[j]) + NumDofs])
    + 2 * NumDofs * (t - 1) + NumDofs + i

\* C5: computeConstraints(x) is the zero vector for a consistent trajectory,
\* and changing one velocity or acceleration entry of a consistent trajectory
\* gives a nonzero value at that entry's constraint row.
C5_ConstraintConsistency ==
  (last.op = "computeConstraints" /\ flags.mIncludePoses) =>
    /\ last.returned
    /\ isConsistent(mPoses, mVels, mAccs, trialTimesteps) =>
         \A r \in 1..Len(last.value) : last.value[r] = 0
    /\ \A e \in VelocityEntries :
         isConsistent(mPoses, [mVels EXCEPT ![e[1]][e[2]][e[3]] = @ - 1], mAccs,
                      trialTimesteps)
           => /\ velocityRow(mAccs, e[1], e[2], e[3]) \in 1..Len(last.value)
              /\ last.value[velocityRow(mAccs, e[1], e[2], e[3])] # 0
    /\ \A e \in AccelerationEntries :
         isConsistent(mPoses, mVels, [mAccs EXCEPT ![e[1]][e[2]][e[3]] = @ - 1],
                      trialTimesteps)
           => /\ accelerationRow(mAccs, e[1], e[2], e[3]) \in 1..Len(last.value)
              /\ last.value[accelerationRow(mAccs, e[1], e[2], e[3])] # 0

\* C7: every public method of ResidualForceHelper returns with the skeleton's
\* positions, velocities and accelerations equal to what they were before the
\* call.
C7_HelperRestoresState ==
  last.op \in HelperOps => kinematics(mSkeleton) = last.before

EvaluatorOps == {"computeLoss", "computeGradient"}

unflaggedTimesteps ==
  {kt \in (1..Len(mAccs)) \X (1..MaxFrames) :
     /\ kt[2] <= cols(mAccs[kt[1]])
     /\ ~probablyMissingGRF[kt[1]][kt[2]]}

includedResidualWrts ==
  (IF flags.mIncludeMasses THEN {"GROUP_MASSES"} ELSE {})
  \cup (IF flags.mIncludeCOMs THEN {"GROUP_COMS"} ELSE {})
  \cup (IF flags.mIncludeInertias THEN {"GROUP_INERTIAS"} ELSE {})
  \cup (IF flags.mIncludeBodyScales THEN {"GROUP_SCALES"} ELSE {})
  \cup (IF flags.mIncludePoses THEN {"POSITION", "VELOCITY", "ACCELERATION"} ELSE {})

\* C6: a timestep flagged in probablyMissingGRF adds no residual term to
\* computeLoss nor to any block of computeGradient; residual terms are added
\* exactly for the unflagged timesteps that have an acceleration sample.
C6_MissingGRFExcluded ==
  /\ (last.op = "computeLoss" /\ last.returned) =>
       /\ last.terms = unflaggedTimesteps
       /\ \A kt \in last.terms : ~probablyMissingGRF[kt[1]][kt[2]]
  /\ (last.op = "computeGradient" /\ last.returned) =>
       /\ last.terms = {<< kt[1], kt[2], w >> : kt \in unflaggedTimesteps,
                                                w \in includedResidualWrts}
       /\ \A e \in last.terms : ~probablyMissingGRF[e[1]][e[2]]

C6_Witness ==
  /\ last.op = "computeGradient"
  /\ last.returned
  /\ AllIncluded
  /\ last.terms # {}
  /\ Len(mAccs) = MaxTrials
  /\ Len(probablyMissingGRF) = Len(poseTrials)
  /\ \E k \in 1..Len(mAccs) : \E t \in 1..cols(mAccs[k]) : probablyMissingGRF[k][t]

\* C8: when computeLoss(x) or computeGradient(x) returns, the skeleton's
\* positions, velocities and accelerations are what they were before the call.
C8_EvaluatorRestoresState ==
  (last.op \in EvaluatorOps /\ last.returned) =>
    kinematics(mSkeleton) = last.before

\* C9: the recorded best objective value is the minimum obj_value over the
\* calls of intermediate_callback so far with |inf_pr| < 1.0, and +infinity
\* if there was none; a call never increases it, a call with |inf_pr| >= 1.0
\* changes nothing of the record, and every call returns true.
C9_BestTracker ==
  /\ mBest.isInf <=> ~hist.feasible
  /\ ~mBest.isInf => mBest.value = hist.min
  /\ last.op = "intermediate_callback" =>
       /\ last.returned
       /\ abs(last.inf_pr) >= FeasibilityTenths => mBest = last.before
       /\ ~last.before.isInf =>
            /\ ~mBest.isInf
            /\ mBest.value <= last.before.value

C9_Witness ==
  /\ last.op = "intermediate_callback"
  /\ hist.calls = MaxIters
  /\ abs(last.inf_pr) >= FeasibilityTenths
  /\ ~mBest.isInf
  /\ last.obj_value < mBest.value
  /\ mBest.iteration > 0

\* C10: finalize_solution writes into init the values of the tracker's best
\* state, not those of the iterate the solver hands over, and only for the
\* groups whose flag is set; the fields of every other group stay as they were.
C10_FinalizeWritesBest ==
  (last.op = "finalize_solution" /\ last.returned) =>
    LET best == mBest.state
        sk == unflattenSkeleton(best, flags, mSkeleton, 0)
    IN  /\ ~flags.mIncludeBodyScales => initParams.groupScales = last.initBefore.groupScales
        /\ ~flags.mIncludeCOMs => initParams.bodyCom = last.initBefore.bodyCom
        /\ ~flags.mIncludeInertias => initParams.bodyInertia = last.initBefore.bodyInertia
        /\ ~flags.mIncludeMasses => initParams.bodyMasses = last.initBefore.bodyMasses
        /\ ~flags.mIncludeMarkerOffsets =>
             initParams.markerOffsets = last.initBefore.markerOffsets
        /\ ~flags.mIncludePoses => poseTrials = last.posesBefore
        /\ ~mBest.isInf =>
             /\ Len(best) = getProblemSize
             /\ flags.mIncludeBodyScales =>
                  initParams.groupScales = segment(best, cursorScales(flags), getGroupScaleDim, 0)
             /\ flags.mIncludeCOMs =>
                  initParams.bodyCom = segment(best, cursorCOMs(flags), comDim, 0)
             /\ flags.mIncludeInertias =>
                  initParams.bodyInertia = segment(best, cursorInertias(flags), inertiaDim, 0)
             /\ flags.mIncludeMasses => initParams.bodyMasses = segment(best, 0, massDim, 0)
             /\ flags.mIncludeMarkerOffsets =>
                  initParams.markerOffsets = unflattenMarkers(best, flags, mMarkers, 0)
             /\ flags.mIncludePoses =>
                  poseTrials = unflattenPoses(best, flags, mPoses, mAccs, 0)

C10_Witness ==
  /\ last.op = "finalize_solution"
  /\ last.returned
  /\ ~mBest.isInf
  /\ last.solverX # mBest.state
  /\ flags.mIncludeMasses /\ flags.mIncludePoses /\ flags.mIncludeMarkerOffsets
  /\ ~flags.mIncludeCOMs /\ ~flags.mIncludeBodyScales
  /\ initParams.bodyMasses # last.initBefore.bodyMasses
  /\ poseTrials # last.posesBefore

\* C11: once createInitialization has returned, no evaluator and no stage
\* changes init's regularization targets (originalPoses, originalGroupMasses,
\* originalGroupCOMs, originalGroupInertias, originalGroupScales,
\* originalMarkerOffsets), neither their values nor their key set.
C11_OriginalsKept == [][originals' = originals]_vars

\* the kind and index of the quantity flatten() stores at each entry
kindLayout ==
  flattenOf(flags,
            [n \in {"groupMasses", "groupCOMs", "groupInertias", "groupScales"} |->
               [i \in DOMAIN mSkeleton[n] |-> << n, i >>]],
            [m \in DOMAIN mMarkers |-> [c \in 1..MarkerDim |-> << "markerOffsets", c >>]],
            [k \in DOMAIN mPoses |->
               [t \in DOMAIN mPoses[k] |-> [i \in 1..NumDofs |-> << "positions", i >>]]],
            [k \in DOMAIN mVels |->
               [t \in DOMAIN mVels[k] |-> [i \in 1..NumDofs |-> << "velocities", i >>]]],
            [k \in DOMAIN mAccs |->
               [t \in DOMAIN mAccs[k] |-> [i \in 1..NumDofs |-> << "accelerations", i >>]]])

boundsFollowLayout(value, skeletonBounds, markerBound) ==
  /\ Len(value) = getProblemSize
  /\ Len(value) = Len(kindLayout)
  /\ \A e \in 1..Len(value) :
       value[e] = IF kindLayout[e][1] = "markerOffsets" THEN markerBound
                  ELSE skeletonBounds[kindLayout[e][1]][kindLayout[e][2]]

\* C12: for every combination of the inclusion flags, flattenUpperBound() and
\* flattenLowerBound() have getProblemSize() entries laid out as flatten()
\* lays out its own: a marker-offset entry is bounded by -5 and +5, every
\* other entry by the skeleton's bound or limit of the kind of quantity (and
\* the dof or parameter) flatten() stores there.
C12_BoundsFollowLayout ==
  /\ last.op = "flattenUpperBound" =>
       boundsFollowLayout(last.value, skeletonUpperBounds, MarkerOffsetBound)
  /\ last.op = "flattenLowerBound" =>
       boundsFollowLayout(last.value, skeletonLowerBounds, -MarkerOffsetBound)

C12_Witness ==
  /\ last.op = "flattenLowerBound"
  /\ AllIncluded
  /\ Len(mAccs) = MaxTrials
  /\ \E k \in 1..Len(mAccs) : cols(mAccs[k]) >= 2
  /\ Len(last.value) = getProblemSize
  /\ \E e \in 1..Len(last.value) : last.value[e] = -MarkerOffsetBound

\* the 6 rows of GRF body b in a column of grfTrials
blockOf(column, b) == SubSeq(column, 6 * (b - 1) + 1, 6 * b)

RECURSIVE sumWrenches(_)
sumWrenches(ws) ==
  IF ws = << >> THEN Zero(6) ELSE addVec(Head(ws), sumWrenches(Tail(ws)))

\* squared Euclidean distance between GRF body b and the center of pressure
\* of plate p at frame t of trial k
copDistance(k, t, p, b) ==
  squaredNorm(subVec(world[k][t][given.grfNodes[b]],
                     forcePlateTrials[k][p].centersOfPressure[t]))

\* the GRF body nearest to plate p, the lowest index among equally near ones
nearestBody(k, t, p) ==
  CHOOSE b \in 1..Len(given.grfNodes) :
    \A c \in 1..Len(given.grfNodes) :
      \/ copDistance(k, t, p, b) < copDistance(k, t, p, c)
      \/ copDistance(k, t, p, b) = copDistance(k, t, p, c) /\ b <= c

\* C16: in every frame of every trial, the block of each GRF body in grfTrials
\* is the sum of the world wrenches of exactly the plates whose center of
\* pressure is nearest to that body (lowest index on a tie), and the blocks
\* together sum to the sum of all plates' world wrenches.
C16_NearestBodyGetsWrench ==
  \A k \in DOMAIN grfTrials : \A t \in DOMAIN grfTrials[k] :
    LET plates == forcePlateTrials[k]
        bodies == 1..Len(given.grfNodes)
        wrenches == [p \in 1..Len(plates) |-> worldWrenchOf(plates[p], t)]
        assigned(b) ==
          sumWrenches([p \in 1..Len(plates) |->
                         IF nearestBody(k, t, p) = b THEN wrenches[p] ELSE Zero(6)])
    IN  /\ \A b \in bodies : blockOf(grfTrials[k][t], b) = assigned(b)
        /\ sumWrenches([b \in bodies |-> blockOf(grfTrials[k][t], b)])
             = sumWrenches(wrenches)

\* createInitialization has run over two GRF bodies and two plates: in one
\* frame both plates measure a force and go to the same body, in one they go
\* to different bodies, and in one a plate is equally near to both bodies
C16_Witness ==
  /\ last.op = "createInitialization"
  /\ Len(given.grfNodes) = 2
  /\ \E k \in DOMAIN grfTrials : \E t \in DOMAIN grfTrials[k] :
       /\ Len(forcePlateTrials[k]) = 2
       /\ nearestBody(k, t, 1) = nearestBody(k, t, 2)
       /\ \A p \in 1..2 : squaredNorm(worldWrenchOf(forcePlateTrials[k][p], t)) > 0
  /\ \E k \in DOMAIN grfTrials : \E t \in DOMAIN grfTrials[k] :
       /\ Len(forcePlateTrials[k]) = 2
       /\ nearestBody(k, t, 1) # nearestBody(k, t, 2)
  /\ \E k \in DOMAIN grfTrials : \E t \in DOMAIN grfTrials[k] :
       \E p \in DOMAIN forcePlateTrials[k] :
         /\ copDistance(k, t, p, 1) = copDistance(k, t, p, 2)
         /\ squaredNorm(worldWrenchOf(forcePlateTrials[k][p], t)) > 0

\* C18: once createInitialization has returned, by either overload,
\* init.jointCenters and init.jointAxis hold an entry for every trial, with as
\* many columns as init.poseTrials[trial].
C18_JointColumns ==
  phase # "start" =>
    \A k \in 1..Len(poseTrials) :
      /\ k \in DOMAIN initJoints.jointCenters
      /\ k \in DOMAIN initJoints.jointAxis
      /\ cols(initJoints.jointCenters[k]) = cols(poseTrials[k])
      /\ cols(initJoints.jointAxis[k]) = cols(poseTrials[k])

\* the trial that entry e of the per-trial lists was appended for
trialOfEntry(e) == ((e - 1) % Len(forcePlateTrials)) + 1

\* a contact body of GRF body b whose sphere predicts contact at frame t and
\* which is over no plate of the trial, the default plate included
contactOffPlates(e, t, b) ==
  LET k == trialOfEntry(e)
      bodies == contacts.contactBodies
  IN  \E c \in 1..Len(bodies[b]) :
        /\ contactDists(bodies, k, t, b, contacts.groundHeight[e])[c]
             < contacts.grfBodyContactSphereRadius[e][b][c]
        /\ ~inAnyPlate(world[k][t][bodies[b][c]], forcePlateTrials[k],
                       contacts.defaultForcePlateCorners[e])

\* C15: estimateFootGroundContacts flags a frame exactly when some GRF body is
\* not force-active while one of its contact spheres predicts contact at a
\* point that is outside every plate's footprint, the default plate included.
C15_FlaggedWhenOffPlate ==
  \A e \in DOMAIN probablyMissingGRF : \A t \in DOMAIN probablyMissingGRF[e] :
    probablyMissingGRF[e][t]
      <=> \E b \in 1..Len(given.grfNodes) :
            ~footActive(trialOfEntry(e), t, b) /\ contactOffPlates(e, t, b)

\* C17: the residual term of computeLoss is summed over the unflagged
\* timesteps only and divided by the number of those timesteps, the ones that
\* contribute a residual term.
C17_ResidualNormalizedByUnflagged ==
  (last.op = "computeLoss" /\ last.returned) =>
    /\ last.terms = unflaggedTimesteps
    /\ last.totalAccTimesteps = Cardinality(last.terms)

\* x lies within flattenLowerBound() and flattenUpperBound()
withinBounds(x) ==
  /\ Len(x) = getProblemSize
  /\ \A i \in 1..Len(x) : flattenLowerBound[i] <= x[i] /\ x[i] <= flattenUpperBound[i]

\* C19: for every combination of the inclusion flags and every x within the
\* bounds, the vector computeGradient(x) returns equals the central difference
\* of computeLoss at x, entry by entry.
C19_GradientMatchesCentralDifference ==
  (last.op = "computeGradient" /\ last.returned /\ withinBounds(last.x)) =>
    last.value = finiteDifferenceGradient(last.x)

\* C13: a diagnostic query that returns leaves every field of init as it was,
\* and the skeleton's positions, link masses and group scales as they were
\* before the call.
C13_DiagnosticsReadOnly ==
  (last.op \in DiagnosticOps /\ last.returned) =>
    /\ initFields = last.initBefore
    /\ perturbable(mSkeleton) = last.before

\* comPositions returned on an init whose masses a warm-start stage changed,
\* so that the masses it set on the skeleton differ from those it put back
C13_Witness ==
  /\ last.op = "comPositions"
  /\ last.returned
  /\ initParams.bodyMasses # mSkeleton.groupMasses

\* C14: after estimateLinkMassesFromAcceleration every entry of
\* init.bodyMasses is at least the floor: a solved mass below the floor became
\* exactly the floor, a solved mass at or above it was kept.
C14_MassFloor ==
  (last.op = "estimateLinkMassesFromAcceleration" /\ last.returned) =>
    \A i \in 1..massDim :
      /\ initParams.bodyMasses[i] >= MassFloor
      /\ last.solved[i] < MassFloor => initParams.bodyMasses[i] = MassFloor
      /\ last.solved[i] >= MassFloor => initParams.bodyMasses[i] = last.solved[i]

\* the solve returned a positive mass below the floor
C14_Witness ==
  /\ last.op = "estimateLinkMassesFromAcceleration"
  /\ last.returned
  /\ \E i \in 1..massDim : last.solved[i] > 0 /\ last.solved[i] < MassFloor

\* C20: a run that includes the masses starts from the masses of init (the
\* ones the warm-start stages produced), and what it writes to
\* init.bodyMasses is the best iterate's masses, an iterate that started from
\* the masses of init.
C20_RunStartsFromInitMasses ==
  (last.op = "runOptimization" /\ flags.mIncludeMasses) =>
    segment(last.startingPoint, 0, massDim, 0) = last.initBefore.bodyMasses

\* the body a body hangs below (0 for the root of the tree)
parentOf(body) ==
  IF \E p \in 1..NumBodyNodes : body \in Range(getChildBodyNodes(p))
    THEN CHOOSE p \in 1..NumBodyNodes : body \in Range(getChildBodyNodes(p))
    ELSE 0

\* the bodies below a body, at any depth
RECURSIVE descendantsOf(_)
descendantsOf(body) ==
  LET children == Range(getChildBodyNodes(body))
  IN  children \cup UNION {descendantsOf(child) : child \in children}

\* the bodies below a body that are reached without passing a GRF body
RECURSIVE ownDescendantsOf(_, _)
ownDescendantsOf(body, grfNodes) ==
  LET children == Range(getChildBodyNodes(body)) \ Range(grfNodes)
  IN  children \cup UNION {ownDescendantsOf(child, grfNodes) : child \in children}

indexIn(list, body) == CHOOSE p \in DOMAIN list : list[p] = body

\* list starts with root and holds each of members once, every body after its
\* parent, the children of an earlier body before those of a later one, and
\* the children of one body in the order the body lists them
isBreadthFirst(list, root, members) ==
  /\ Len(list) = 1 + Cardinality(members)
  /\ list[1] = root
  /\ {list[p] : p \in 2..Len(list)} = members
  /\ \A p \in 2..Len(list) :
       /\ parentOf(list[p]) \in {list[q] : q \in 1..(p - 1)}
       /\ \A q \in (p + 1)..Len(list) :
            LET pp == indexIn(list, parentOf(list[p]))
                pq == indexIn(list, parentOf(list[q]))
                siblings == getChildBodyNodes(parentOf(list[p]))
            IN  /\ pp <= pq
                /\ pp = pq => indexIn(siblings, list[p]) < indexIn(siblings, list[q])

\* C22 as stated: the list of every GRF body is the body followed, breadth
\* first, by all of its descendants that are not GRF bodies themselves.
C22_AllNonGrfDescendants ==
  last.op = "estimateFootGroundContacts" =>
    \A i \in 1..Len(given.grfNodes) :
      isBreadthFirst(contacts.contactBodies[Len(contacts.contactBodies)
                                              - Len(given.grfNodes) + i],
                     given.grfNodes[i],
                     descendantsOf(given.grfNodes[i]) \ Range(given.grfNodes))

\* C22, amended: the list of every GRF body is the body followed, breadth
\* first, by those of its descendants that are reached without passing
\* through a GRF body; the bodies below another GRF body are left to that one.
C22_ContactBodiesBreadthFirst ==
  last.op = "estimateFootGroundContacts" =>
    \A i \in 1..Len(given.grfNodes) :
      isBreadthFirst(contacts.contactBodies[Len(contacts.contactBodies)
                                              - Len(given.grfNodes) + i],
                     given.grfNodes[i],
                     ownDescendantsOf(given.grfNodes[i], given.grfNodes))

\* a GRF body with a child that is a GRF body and has a body below it, and
\* with another child that is kept
C22_Witness ==
  /\ last.op = "estimateFootGroundContacts"
  /\ \E i \in 1..Len(given.grfNodes) :
       LET root == given.grfNodes[i]
       IN  /\ ownDescendantsOf(root, given.grfNodes) # {}
           /\ ownDescendantsOf(root, given.grfNodes)
                # descendantsOf(root) \ Range(given.grfNodes)

\* C23: after estimateFootGroundContacts, a GRF body whose measured wrench is
\* force-active at a frame has grfBodySphereInContact set at that frame.
C23_ActiveImpliesInContact ==
  \A e \in DOMAIN contacts.grfBodyForceActive :
    \A t \in DOMAIN contacts.grfBodyForceActive[e] :
      \A b \in DOMAIN contacts.grfBodyForceActive[e][t] :
        contacts.grfBodyForceActive[e][t][b] =>
          contacts.grfBodySphereInContact[e][t][b]

\* C27: after one or more estimateFootGroundContacts calls init.contactBodies
\* has one list per GRF body, and probablyMissingGRF, groundHeight,
\* flatGround, defaultForcePlateCorners and grfBodyContactSphereRadius have
\* one entry per trial, probablyMissingGRF[trial] with one flag per frame of
\* poseTrials[trial].
C27_OneEntryPerTrial ==
  last.op = "estimateFootGroundContacts" =>
    /\ Len(contacts.contactBodies) = Len(given.grfNodes)
    /\ Len(probablyMissingGRF) = Len(poseTrials)
    /\ Len(contacts.groundHeight) = Len(poseTrials)
    /\ Len(contacts.flatGround) = Len(poseTrials)
    /\ Len(contacts.defaultForcePlateCorners) = Len(poseTrials)
    /\ Len(contacts.grfBodyContactSphereRadius) = Len(poseTrials)
    /\ \A k \in 1..Len(poseTrials) :
         Len(probablyMissingGRF[k]) = cols(poseTrials[k])

\* C29: flatGround of a trial is true exactly when every corner of the
\* trial's plates has the height of the first corner.
C29_FlatGroundIffSameHeight ==
  \A e \in DOMAIN contacts.flatGround :
    LET corners == allCorners(forcePlateTrials[trialOfEntry(e)])
    IN  contacts.flatGround[e] =
          (\A i \in DOMAIN corners : corners[i][2] = corners[1][2])

\* the acceleration samples of an init: max(0, frames - 2) per trial
accelerationSamples(P) ==
  SumSeq([k \in 1..Len(P) |-> IF cols(P[k]) > 2 THEN cols(P[k]) - 2 ELSE 0])

\* C28: the data rows estimateLinkMassesFromAcceleration allocates are three
\* per acceleration sample it writes, for trials of any length, so that every
\* write lands in the data rows and the regularization block starts right
\* after the last of them.
C28_RowsMatchSamples ==
  last.op = "estimateLinkMassesFromAcceleration" =>
    /\ last.totalTimesteps = accelerationSamples(poseTrials)
    /\ Len(last.written) = accelerationSamples(poseTrials)
    /\ \A i \in DOMAIN last.written : last.written[i] < last.totalTimesteps

\* flatten() of a state whose every pose entry is its own name: where
\* flatten() puts dof j of the position, velocity or acceleration of frame t
\* of trial k
taggedFlatten ==
  LET tag(M, wrt) ==
        [k \in 1..Len(M) |-> [t \in 1..cols(M[k]) |->
           [j \in 1..NumDofs |-> << wrt, k, t, j >>]]]
      named(v, name) == [i \in DOMAIN v |-> << name, 0, 0, i >>]
  IN  flattenOf(flags,
                [groupMasses |-> named(mSkeleton.groupMasses, "GROUP_MASSES"),
                 groupCOMs |-> named(mSkeleton.groupCOMs, "GROUP_COMS"),
                 groupInertias |-> named(mSkeleton.groupInertias, "GROUP_INERTIAS"),
                 groupScales |-> named(mSkeleton.groupScales, "GROUP_SCALES")],
                [i \in DOMAIN mMarkers |-> named(mMarkers[i], "MARKER")],
                tag(mPoses, "POSITION"), tag(mVels, "VELOCITY"),
                tag(mAccs, "ACCELERATION"))

\* the 0-based offset of a frame's block in a tagged flatten()
flattenOffset(tagged, wrt, k, t) ==
  (CHOOSE i \in DOMAIN tagged : tagged[i] = << wrt, k, t, 1 >>) - 1

\* the entries of a tagged flatten() that hold the last velocity of a trial
trailingVelocityEntries(tagged) ==
  {i \in DOMAIN tagged :
     /\ tagged[i][1] = "VELOCITY"
     /\ tagged[i][3] = cols(mVels[tagged[i][2]])}

\* C21: computeGradient(x) returns getProblemSize() entries, its pose cursor
\* ends at the end of the vector, every frame's terms are added where
\* flatten() keeps that frame, the two boundary frames of a trial get no
\* residual term, and the entries of a trial's last velocity are zero.
C21_GradientFollowsLayout ==
  (last.op = "computeGradient" /\ last.returned) =>
    LET tagged == taggedFlatten
    IN  /\ Len(last.value) = getProblemSize
        /\ last.posesCursor = getProblemSize
        /\ flags.mIncludePoses =>
             \A k \in 1..Len(mPoses) : \A t \in 1..cols(mPoses[k]) :
               \E w \in last.writes : w.trial = k /\ w.t = t /\ w.wrt = "POSITION"
        /\ \A w \in last.writes : w.at = flattenOffset(tagged, w.wrt, w.trial, w.t)
        /\ \A w \in last.writes :
             w.t > cols(mAccs[w.trial]) => w.wrt = "POSITION"
        /\ \A term \in last.terms : term[2] <= cols(mAccs[term[1]])
        /\ \A i \in trailingVelocityEntries(tagged) : last.value[i] = 0

\* a gradient with poses included over two trials, one of them of two frames
\* only, and with a parameter block left out
C21_Witness ==
  /\ last.op = "computeGradient"
  /\ last.returned
  /\ flags.mIncludePoses
  /\ ~flags.mIncludeMasses
  /\ Len(mPoses) = 2
  /\ \E k \in 1..2 : cols(mAccs[k]) = 0
  /\ \E k \in 1..2 : cols(mAccs[k]) > 0

\* ------------------------------------- the setters between calls of unflatten
\* a problem over one short trial whose flags are set at any time, before and
\* between the calls that unflatten
MemoShapes == {shape \in Shapes : Len(shape) = 1 /\ shape[1] = MinFrames}

InitMemo ==
  /\ \E shape \in MemoShapes : InitProblem(shape) /\ InitOriginals(shape, 1..NumMarkers)
  /\ probablyMissingGRF = << >>

\* vectors as long as the problem under the flags of the moment
MemoX == {vectorOf(getProblemSize, 1, 0)}

NextMemo ==
  \/ SetIncludes
  \/ \E x \in MemoX : Unflatten(x)
  \/ \E x \in MemoX, withAsserts \in BOOLEAN : ComputeConstraints(x, withAsserts)

SpecMemo == InitMemo /\ [][NextMemo]_vars

\* C24: once unflatten(x) has returned for an x as long as the problem,
\* flatten() is x, whatever setters and calls came before
C24_UnflattenLeavesNoStaleState ==
  (last.op = "unflatten" /\ Len(last.x) = getProblemSize) => flatten = last.x

\* C25: whenever intermediate_callback records obj_value as the new best, the
\* state it saves is the iterate that obj_value belongs to
C25_BestStateIsIterate ==
  (last.op = "intermediate_callback" /\ mBest # last.before)
    => mBest.state = last.iterate

\* C26: whenever finalize_solution runs, the state it unflattens is as long as
\* the problem and was recorded by an earlier intermediate_callback
C26_FinalizeUnflattensRecorded ==
  last.op = "finalize_solution"
    => Len(finalizeSource(mBest, last.solverX)) = getProblemSize /\ ~mBest.isInf

====
